---- MODULE Spec2Model ----
(***************************************************************************)
(* pynextion: the protocol engine of a Nextion HMI panel driver.           *)
(*                                                                         *)
(* The model follows the Python source:                                    *)
(*   events.py    MsgEvent.parse and the per-variant frame decoders        *)
(*   commands.py  CommandBase: status, send, reset, event                  *)
(*   device.py    NexDevice: the command deque, get_current_page, poll,    *)
(*                init, hook_page, select_page, and NexEventPoller         *)
(*   widgets.py   NexPage: hook_widget, show, refresh, onetime_refresh     *)
(*                                                                         *)
(* A deque is a sequence whose index 1 is the LEFT end and whose last      *)
(* index is the RIGHT end: appendleft puts a command at index 1 and the    *)
(* oldest command is commands[Len(commands)], as in device.py.             *)
(*                                                                         *)
(* poll() is split at its loop heads (pc): the drain of the transport, the *)
(* for-loop over the drained events, the while-loop that scans the deque   *)
(* for one response frame, and the transmit/refresh tail.  A Qt slot runs  *)
(* synchronously inside emit(), so a command's event() together with the   *)
(* slots connected to its signals is one step.                             *)
(*                                                                         *)
(* Specifications: Spec (commands, frames and poll), SessionSpec (pages,   *)
(* select_page and touch frames), InitSpec (init() and its drain loops),   *)
(* HookSpec (hook_page and hook_widget), PollerSpec (NexEventPoller.run in *)
(* its own thread, stop() and the application in others); FairSpec and    *)
(* FairPollerSpec add the scheduling of the polling thread.                *)
(***************************************************************************)
EXTENDS Integers, Sequences, FiniteSets, TLC

\* ------------------------------------------------------------------ bounds
\* Number of commands enqueued in one behaviour (each enqueue logs an entry).
MaxEnq == 3
\* Number of frames the device sends in one behaviour.
MaxFrames == 2
\* Number of frames the device sends in a behaviour that runs init().
MaxInitFrames == 7

\* --------------------------------------------------- constants.py (values)
\* Return.Code: the first byte of a frame.
INVALID_CMD == 0
CMD_FINISHED == 1
INVALID_COMPONENT_ID == 2
INVALID_PAGE_ID == 3
INVALID_PICTURE_ID == 4
INVALID_FONT_ID == 5
INVALID_BAUD == 17
INVALID_VARIABLE == 26
INVALID_OPERATION == 27
INVALID_ASSIGN == 28
INVALID_EEPROM == 29
INVALID_PARAMETER_QUANTITY == 30
INVALID_IO == 31
INVALID_ESC_CHAR == 32
INVALID_VAR_NAME_TOO_LONG == 35
EVENT_TOUCH_HEAD == 101
CURRENT_PAGE_ID_HEAD == 102
EVENT_POSITION_HEAD == 103
EVENT_SLEEP_POSITION_HEAD == 104
STRING_HEAD == 112
NUMBER_HEAD == 113
EVENT_LAUNCHED == 136
EVENT_UPGRADED == 137

\* One byte of the frame terminator.
END_BYTE == 255

\* S_END_OF_CMD: the 3-byte frame terminator.
S_END_OF_CMD == <<END_BYTE, END_BYTE, END_BYTE>>

\* The members of the enum Return.Code: Return.Code(b) raises ValueError for
\* any other byte.
ReturnCode ==
    { INVALID_CMD, CMD_FINISHED, INVALID_COMPONENT_ID, INVALID_PAGE_ID,
      INVALID_PICTURE_ID, INVALID_FONT_ID, INVALID_BAUD, INVALID_VARIABLE,
      INVALID_OPERATION, INVALID_ASSIGN, INVALID_EEPROM,
      INVALID_PARAMETER_QUANTITY, INVALID_IO, INVALID_ESC_CHAR,
      INVALID_VAR_NAME_TOO_LONG, EVENT_TOUCH_HEAD, CURRENT_PAGE_ID_HEAD,
      EVENT_POSITION_HEAD, EVENT_SLEEP_POSITION_HEAD, STRING_HEAD,
      NUMBER_HEAD, EVENT_LAUNCHED, EVENT_UPGRADED }

\* ------------------------------------------------------------- events.py
\* An exception raised by a parser, as a value.
Raise(exc) == [type |-> "raise", exc |-> exc]

\* raise NexMessageException(code), line 281: the exception carries the code.
NexMessageException(code) ==
    [type |-> "raise", exc |-> "NexMessageException", code |-> code]

\* The absent data event (Python None).
None == [type |-> "None"]

\* has_end
has_end(msg) ==
    /\ Len(msg) > 3
    /\ SubSeq(msg, Len(msg) - 2, Len(msg)) = S_END_OF_CMD

\* D_BYTE0_EVENT: first byte -> event class.
D_BYTE0_EVENT ==
    [b \in { EVENT_LAUNCHED, CMD_FINISHED, EVENT_TOUCH_HEAD,
             CURRENT_PAGE_ID_HEAD, EVENT_POSITION_HEAD,
             EVENT_SLEEP_POSITION_HEAD, STRING_HEAD, NUMBER_HEAD } |->
        CASE b = EVENT_LAUNCHED -> "EventLaunched"
          [] b = CMD_FINISHED -> "CommandSucceeded"
          [] b = EVENT_TOUCH_HEAD -> "TouchEvent"
          [] b = CURRENT_PAGE_ID_HEAD -> "CurrentPageIDHeadEvent"
          [] b = EVENT_POSITION_HEAD -> "PositionHeadEvent"
          [] b = EVENT_SLEEP_POSITION_HEAD -> "SleepPositionHeadEvent"
          [] b = STRING_HEAD -> "StringHeadEvent"
          [] OTHER -> "NumberHeadEvent"]

\* NEX_EXCEPTIONS: the device-reported fault codes.
NEX_EXCEPTIONS ==
    { INVALID_CMD, CMD_FINISHED, INVALID_COMPONENT_ID, INVALID_PAGE_ID,
      INVALID_PICTURE_ID, INVALID_FONT_ID, INVALID_BAUD, INVALID_VARIABLE,
      INVALID_OPERATION, INVALID_ASSIGN, INVALID_EEPROM,
      INVALID_PARAMETER_QUANTITY, INVALID_IO, INVALID_ESC_CHAR,
      INVALID_VAR_NAME_TOO_LONG }

\* EXPECTED_LENGTH of each event class; -1 stands for None (no fixed length).
EXPECTED_LENGTH(cls) ==
    CASE cls = "TouchEvent" -> 7
      [] cls = "CurrentPageIDHeadEvent" -> 5
      [] cls = "PositionHeadEvent" -> 9
      [] cls = "SleepPositionHeadEvent" -> 9
      [] cls = "NumberHeadEvent" -> 8
      [] cls = "CommandSucceeded" -> 4
      [] cls = "EventLaunched" -> 4
      [] OTHER -> -1

\* NumberHeadEvent.parse, line 184: msg[1] + (msg[2] << 8) + (msg[3] << 16) +
\* (msg[4] << 24) of four bytes, least significant first.  The sum is below
\* 2^32; it is kept as its two 16-bit halves, value = hi * 2^16 + lo.
Unsigned32(b0, b1, b2, b3) == [hi |-> b3 * 256 + b2, lo |-> b1 * 256 + b0]

\* The conversion keeping the low 31 bits and dropping the sign bit.
c_int32_Magnitude(value) == (value.hi % 32768) * 65536 + value.lo

\* ctypes.c_int32(value).value, line 185: the 32 bits of value read as two's
\* complement; bit 31 (bit 15 of hi) weighs -2^31.
c_int32(value) ==
    ((value.hi % 32768) - (value.hi \div 32768) * 32768) * 65536 + value.lo

\* The field extraction of <class>.parse, after the three ensure_* checks.
\* Event.Touch(b) raises ValueError unless b is 0 (Release) or 1 (Press).
\* The string payload is the bytes between the first byte and the terminator
\* (bytes below 0x80 decode to themselves under UTF-8).
ParseFields(cls, msg) ==
    CASE cls = "TouchEvent" ->
            IF msg[4] \in {0, 1}
            THEN [type |-> cls, pid |-> msg[2], cid |-> msg[3], press_event |-> msg[4]]
            ELSE Raise("ValueError")
      [] cls = "CurrentPageIDHeadEvent" -> [type |-> cls, pid |-> msg[2]]
      [] cls \in {"PositionHeadEvent", "SleepPositionHeadEvent"} ->
            IF msg[6] \in {0, 1}
            THEN [type |-> cls, x |-> msg[2] * 256 + msg[3],
                  y |-> msg[4] * 256 + msg[5], tevts |-> msg[6]]
            ELSE Raise("ValueError")
      [] cls = "StringHeadEvent" ->
            IF \A i \in 2..(Len(msg) - 3) : msg[i] < 128
            THEN [type |-> cls, value |-> SubSeq(msg, 2, Len(msg) - 3)]
            ELSE Raise("UnicodeDecodeError")
      [] cls = "NumberHeadEvent" ->
            [type |-> cls,
             value |-> Unsigned32(msg[2], msg[3], msg[4], msg[5]),
             signed_value |-> c_int32(Unsigned32(msg[2], msg[3], msg[4], msg[5]))]
      [] OTHER -> [type |-> cls]

\* <class>.parse: ensure_has_end, ensure_has_expected_length, then the fields
\* (ensure_has_expected_first_byte cannot fail: the class was chosen by the
\* first byte).
ClassParse(cls, msg) ==
    IF ~has_end(msg) THEN Raise("NexMessageEndException")
    ELSE IF EXPECTED_LENGTH(cls) # -1 /\ Len(msg) # EXPECTED_LENGTH(cls)
    THEN Raise("NexMessageLengthException")
    ELSE ParseFields(cls, msg)

\* The parser without the test for the startup frame.
MsgEventParse_NoStartup(msg) ==
    IF msg = <<>> THEN [type |-> "EmptyMessage"]
    ELSE IF msg[1] \in DOMAIN D_BYTE0_EVENT THEN ClassParse(D_BYTE0_EVENT[msg[1]], msg)
    ELSE IF msg[1] \notin ReturnCode THEN Raise("ValueError")
    ELSE IF msg[1] \in NEX_EXCEPTIONS THEN NexMessageException(msg[1])
    ELSE Raise("NotImplementedError")

\* MsgEvent.parse
MsgEventParse(msg) ==
    IF msg = <<>> THEN [type |-> "EmptyMessage"]
    ELSE IF msg[1] \in DOMAIN D_BYTE0_EVENT THEN ClassParse(D_BYTE0_EVENT[msg[1]], msg)
    ELSE IF msg[1] \notin ReturnCode THEN Raise("ValueError")
    ELSE IF msg[1] = INVALID_CMD /\ msg = <<0, 0, 0, 255, 255, 255>>
    THEN [type |-> "EventStartup"]
    ELSE IF msg[1] \in NEX_EXCEPTIONS THEN NexMessageException(msg[1])
    ELSE Raise("NotImplementedError")

\* ----------------------------------------------------------- commands.py
\* The device's SendmeCommand object; the other commands are 1..MaxEnq, each
\* created (status CREATED, no data event) by the call that enqueues it.
sendme_command == 0
Commands == {sendme_command} \cup (1..MaxEnq)

\* The command classes a widget or page sends through enqueue_command.
WidgetCommandClasses == {"GetPropertyCommand", "SetPropertyCommand", "PageCommand"}

\* DATA_EVENT_CLASSES of a command class (None is the empty set).
DATA_EVENT_CLASSES(cls) ==
    CASE cls = "GetPropertyCommand" -> {"StringHeadEvent", "NumberHeadEvent"}
      [] cls = "SendmeCommand" -> {"CurrentPageIDHeadEvent"}
      [] OTHER -> {}

\* CommandBase.completed
completed(st) == st = "SUCCESSFUL" \/ st = "ERROR"

\* CommandBase.__eq__: equal status, wire bytes and data event.  The wire
\* bytes of the sendme command ("sendme" + terminator) differ from those of
\* every get, set and page command.
CommandEq(cls1, st1, de1, cls2, st2, de2) ==
    /\ st1 = st2
    /\ (cls1 = "SendmeCommand") = (cls2 = "SendmeCommand")
    /\ (cls1 = "SendmeCommand" \/ cls1 = cls2)
    /\ de1 = de2

\* CommandBase.send: the status after transport.write(self.command).
CommandSend(st) == "SENT"

\* The reset that leaves the data event in place.
CommandReset_KeepsData(c) == [c EXCEPT !.status = "CREATED"]

\* CommandBase.reset on a command with the fields c: the status becomes
\* CREATED and the data event None.
CommandReset(c) == [c EXCEPT !.status = "CREATED", !.data_event = None]

\* CommandBase.event with the signal emitted before the status is assigned.
CommandEvent_EmitFirst(cls, st, de, event) ==
    IF DATA_EVENT_CLASSES(cls) # {} /\ event.type \in DATA_EVENT_CLASSES(cls)
    THEN [status |-> st, data_event |-> event, completed |-> FALSE,
          signal |-> "none", status_at_emit |-> st]
    ELSE IF event.type = "CommandSucceeded"
    THEN [status |-> "SUCCESSFUL", data_event |-> de, completed |-> TRUE,
          signal |-> "successful", status_at_emit |-> st]
    ELSE [status |-> "ERROR", data_event |-> de, completed |-> TRUE,
          signal |-> "failed", status_at_emit |-> st]

\* CommandBase.event with a data event taken as the command's completion.
CommandEvent_DataCompletes(cls, st, de, event) ==
    IF DATA_EVENT_CLASSES(cls) # {} /\ event.type \in DATA_EVENT_CLASSES(cls)
    THEN [status |-> "SUCCESSFUL", data_event |-> event, completed |-> FALSE,
          signal |-> "none", status_at_emit |-> st]
    ELSE IF event.type = "CommandSucceeded"
    THEN [status |-> "SUCCESSFUL", data_event |-> de, completed |-> TRUE,
          signal |-> "successful", status_at_emit |-> "SUCCESSFUL"]
    ELSE [status |-> "ERROR", data_event |-> de, completed |-> TRUE,
          signal |-> "failed", status_at_emit |-> "ERROR"]

\* CommandBase.event with the data event dropped when the command fails.
CommandEvent_ErrorClearsData(cls, st, de, event) ==
    IF DATA_EVENT_CLASSES(cls) # {} /\ event.type \in DATA_EVENT_CLASSES(cls)
    THEN [status |-> st, data_event |-> event, completed |-> FALSE,
          signal |-> "none", status_at_emit |-> st]
    ELSE IF event.type = "CommandSucceeded"
    THEN [status |-> "SUCCESSFUL", data_event |-> de, completed |-> TRUE,
          signal |-> "successful", status_at_emit |-> "SUCCESSFUL"]
    ELSE [status |-> "ERROR", data_event |-> None, completed |-> TRUE,
          signal |-> "failed", status_at_emit |-> "ERROR"]

\* CommandBase.event on a command of class cls with status st and data event
\* de: the new status and data event, the value returned (completed), the
\* signal emitted and the status the command has when it is emitted.
CommandEvent(cls, st, de, event) ==
    IF DATA_EVENT_CLASSES(cls) # {} /\ event.type \in DATA_EVENT_CLASSES(cls)
    THEN [status |-> st, data_event |-> event, completed |-> FALSE,
          signal |-> "none", status_at_emit |-> st]
    ELSE IF event.type = "CommandSucceeded"
    THEN [status |-> "SUCCESSFUL", data_event |-> de, completed |-> TRUE,
          signal |-> "successful", status_at_emit |-> "SUCCESSFUL"]
    ELSE [status |-> "ERROR", data_event |-> de, completed |-> TRUE,
          signal |-> "failed", status_at_emit |-> "ERROR"]

\* ------------------------------------------------- commands.py: wire bytes
\* A str is the sequence of its code points, a bytes object the sequence of
\* its bytes.  The longest text value given to SetPropertyCommand.
MaxText == 2

\* The decimal digits of a natural number, as code points.
RECURSIVE Digits(_)
Digits(n) == IF n < 10 THEN <<48 + n>> ELSE Digits(n \div 10) \o <<48 + (n % 10)>>

\* str(param) and the %s conversion, for the values a property takes: a str
\* stands for itself, an int for its decimal digits with a minus sign (45)
\* if negative.  A bool never reaches the conversion (lines 101-102).
str(value) ==
    CASE value.kind = "str" -> value.chars
      [] value.kind = "int" ->
            IF value.n < 0 THEN <<45>> \o Digits(-value.n) ELSE Digits(value.n)

\* bytes(s, 'latin1', 'strict'): every code point up to 255 becomes the byte
\* of the same value; any other code point raises UnicodeEncodeError.
latin1(s) ==
    IF \A i \in 1..Len(s) : s[i] <= 255 THEN s ELSE Raise("UnicodeEncodeError")

\* CommandBase.format_command(cmd) without params: the str cmd followed by
\* three U+00FF, encoded.
format_command(cmd) == latin1(cmd \o <<255, 255, 255>>)

\* SetPropertyCommand.__init__: a bool becomes 1 or 0, then
\* "%s.%s=%s" % (oid, name, value) is formatted; the result is the command
\* attribute (the wire bytes) or the exception of the encoding.
SetPropertyCommand(oid, name, value) ==
    LET v == IF value.kind = "bool"
             THEN [kind |-> "int", n |-> IF value.b THEN 1 ELSE 0]
             ELSE value
    IN  format_command(oid \o <<46>> \o name \o <<61>> \o str(v))

\* ------------------------------------------------------------- device.py
\* collections.deque operations, index 1 the left end.
appendleft(q, c) == <<c>> \o q
pop(q) == SubSeq(q, 1, Len(q) - 1)
rotate(q) == <<q[Len(q)]>> \o SubSeq(q, 1, Len(q) - 1)
Oldest(q) == q[Len(q)]

\* deque.extendleft(s): the items of s are put at the left end one by one.
extendleft(q, s) ==
    [i \in 1..(Len(s) + Len(q)) |->
        IF i <= Len(s) THEN s[Len(s) + 1 - i] ELSE q[i - Len(s)]]

\* current_page when no page is known (Python None).
NoPage == -1

\* The pid of a page, or the cid of a widget, hooked without a numeric ID
\* (Python None).
NoId == NoPage

\* ------------------------------------------------ widgets.py (the registry)
\* A page is the record [name, pid], a widget the record [type, name, cid].
\* A dict is the sequence of its values in insertion order; the key of a
\* value is its name, pid or cid.
NameKeys(d) == {d[i].name : i \in 1..Len(d)}
PidKeys(d) == {d[i].pid : i \in 1..Len(d)}
CidKeys(d) == {d[i].cid : i \in 1..Len(d)}

\* d[pid] and d[cid] for a key that is in the dict.
ByPid(d, pid) == d[CHOOSE i \in 1..Len(d) : d[i].pid = pid]
ByCid(d, cid) == d[CHOOSE i \in 1..Len(d) : d[i].cid = cid]

\* The widget types of WidgetFactory.D_FACTORY used here: NexText and
\* NexPicture.
WidgetTypes == {"text", "picture"}

\* Whether the widget class has the ITouchable mixin, which defines the
\* pressed and released signals: NexText has it, NexPicture has not.
ITouchable(type) == type = "text"

\* ONETIME_REFRESH_VARIABLES and REFRESH_VARIABLES of the widget class
\* (None is the empty tuple).
ONETIME_REFRESH_VARIABLES(type) == IF type = "text" THEN <<"txt">> ELSE <<>>
REFRESH_VARIABLES(type) == <<>>

\* hook_page with the page entered in the ID table before the name is
\* tested.
hook_page_IdFirst(by_name, by_id, name, pid) ==
    LET page == [name |-> name, pid |-> pid] IN
    IF pid \in PidKeys(by_id)
    THEN [exc |-> "NexComponentIdException", by_name |-> by_name, by_id |-> by_id]
    ELSE IF name \in NameKeys(by_name)
    THEN [exc |-> "NexComponentNameException", by_name |-> by_name,
          by_id |-> IF pid # NoId THEN Append(by_id, page) ELSE by_id]
    ELSE [exc |-> "none", by_name |-> Append(by_name, page),
          by_id |-> IF pid # NoId THEN Append(by_id, page) ELSE by_id]

\* NexDevice.hook_page(name, pid) on the tables _pages_by_name and
\* _pages_by_id: the exception raised and the tables after the call.
hook_page(by_name, by_id, name, pid) ==
    IF name \in NameKeys(by_name)
    THEN [exc |-> "NexComponentNameException", by_name |-> by_name, by_id |-> by_id]
    ELSE IF pid \in PidKeys(by_id)
    THEN [exc |-> "NexComponentIdException", by_name |-> by_name, by_id |-> by_id]
    ELSE LET page == [name |-> name, pid |-> pid] IN
         [exc |-> "none", by_name |-> Append(by_name, page),
          by_id |-> IF pid # NoId THEN Append(by_id, page) ELSE by_id]

\* NexPage.hook_widget(widget_type, name, cid) on the page's tables
\* D_WIDGETS_BY_NAME and D_WIDGETS_BY_CID.
hook_widget(by_name, by_cid, widget_type, name, cid) ==
    IF name \in NameKeys(by_name)
    THEN [exc |-> "NexComponentNameException", by_name |-> by_name, by_cid |-> by_cid]
    ELSE IF cid \in CidKeys(by_cid)
    THEN [exc |-> "NexComponentIdException", by_name |-> by_name, by_cid |-> by_cid]
    ELSE LET widget == [type |-> widget_type, name |-> name, cid |-> cid] IN
         [exc |-> "none", by_name |-> Append(by_name, widget),
          by_cid |-> IF cid # NoId THEN Append(by_cid, widget) ELSE by_cid]

\* The last hook call: none yet.
NoCall == [op |-> "none", page |-> "", type |-> "", name |-> "", id |-> NoId]

\* The names pages and widgets are hooked under in this model.
PageNames == {"page0", "page1"}
WidgetNames == {"t0", "t1"}

\* The page tables after hook_page("page<p>", p) for the page IDs of
\* `order`, in that order.
RECURSIVE HookedPages(_)
HookedPages(order) ==
    IF order = <<>> THEN [exc |-> "none", by_name |-> <<>>, by_id |-> <<>>]
    ELSE LET before == HookedPages(SubSeq(order, 1, Len(order) - 1))
             pid == order[Len(order)]
         IN  hook_page(before.by_name, before.by_id,
                       IF pid = 0 THEN "page0" ELSE "page1", pid)

\* The widget tables of the pages after page0.hook_widget("text", "t0", 1),
\* page0.hook_widget("picture", "t1", 2), page1.hook_widget("text", "t0", 1).
HookedWidgets ==
    LET a == hook_widget(<<>>, <<>>, "text", "t0", 1)
        b == hook_widget(a.by_name, a.by_cid, "picture", "t1", 2)
        c == hook_widget(<<>>, <<>>, "text", "t0", 1)
    IN  [by_name |-> [p \in PageNames |-> IF p = "page0" THEN b.by_name ELSE c.by_name],
         by_cid |-> [p \in PageNames |-> IF p = "page0" THEN b.by_cid ELSE c.by_cid]]

\* The steps of init() between its drain loops (lines 105-120): the mode
\* command, then for every page of _pages_by_id.items(), in the order of the
\* dict, select_page and onetime_refresh, then select_page(0).
RECURSIVE PageSteps(_)
PageSteps(by_id) ==
    IF by_id = <<>> THEN <<>>
    ELSE <<[op |-> "select_page", pid |-> Head(by_id).pid],
           [op |-> "onetime_refresh", pid |-> Head(by_id).pid]>>
         \o PageSteps(Tail(by_id))

\* init() selecting the first page before it enqueues the mode command.
InitScript_SelectFirst(by_id) ==
    <<[op |-> "select_page", pid |-> Head(by_id).pid],
      [op |-> "bkcmd", pid |-> NoPage],
      [op |-> "onetime_refresh", pid |-> Head(by_id).pid]>>
    \o PageSteps(Tail(by_id)) \o <<[op |-> "select_page", pid |-> 0]>>

\* The steps of init() in the order of the source.
InitScript(by_id) ==
    <<[op |-> "bkcmd", pid |-> NoPage]>> \o PageSteps(by_id)
    \o <<[op |-> "select_page", pid |-> 0]>>

VARIABLES
    commands,      \* NexDevice._commands
    cls,           \* the class of each command object, "none" before creation
    status,        \* CommandBase.status of each command object
    data_event,    \* CommandBase.data_event of each command object
    current_page,  \* NexDevice._current_page (a page ID or NoPage)
    rx,            \* the frames the transport holds, oldest first
    pc,            \* where poll() stands: idle, dispatch, scan, transmit
    events,        \* poll()'s local list of drained events not yet dispatched
    raised,        \* the exception the last poll() call ended with, or none
    nframes,       \* frames sent by the device so far
    enq,           \* log: the commands in the order they were enqueued
    written,       \* log: the commands in the order transport.write got them
    sends,         \* log: transport writes of each command since creation or reset
    signals,       \* log: <<command, signal, status at emission>> per emission
    fed,           \* log: <<command, its status, the event>> per call of event()
    pages_by_name,     \* NexDevice._pages_by_name
    pages_by_id,       \* NexDevice._pages_by_id
    D_WIDGETS_BY_NAME, \* NexPage.D_WIDGETS_BY_NAME of each page (by page name)
    D_WIDGETS_BY_CID,  \* NexPage.D_WIDGETS_BY_CID of each page (by page name)
    call,          \* log: the last hook_page / hook_widget call and its arguments
    initialized,   \* NexDevice._initialized
    init_pc,       \* the steps of InitScript init() has done; 0 before init()
    page_switch_in_progress, \* NexPage._page_switch_in_progress of each page
    sender,        \* the page (<<page>>) or widget (<<page, widget>>) whose
                   \* send_command sent the command; <<>> if not recorded
    page_changed,  \* log: the arguments of the page_changed emissions
    touched,       \* log: <<pid, widget name, signal>> per pressed / released emission
    refreshed,     \* log: the objects whose refresh() the running or last poll() called
    run_poll_loop, \* NexEventPoller._run_poll_loop
    lock,          \* NexEventPoller._run_poll_loop_lock: free, read, write
    run_pc,        \* where NexEventPoller.run stands; none if no poller runs
    thread_local_run, \* NexEventPoller._thread_local.run
    stop_pc,       \* where NexEventPoller.stop stands; none before the call
    polls_after_stop, \* log: poll() calls the loop started after stop() returned
    args,          \* the arguments of the last call of a function of the codec
    result,        \* what that call returned, or the exception it raised
    line,          \* the bytes the device has sent that have not reached the port
    in_waiting,    \* the bytes in the input buffer of the serial port (sp)
    events_queue,  \* AbstractSerialNex._events_queue
    sent,          \* log: the frames the device has sent, in order
    returned       \* log: the non-empty results of read_next(), in order

registry == <<pages_by_name, pages_by_id, D_WIDGETS_BY_NAME, D_WIDGETS_BY_CID, call>>

poller == <<run_poll_loop, lock, thread_local_run, stop_pc, polls_after_stop>>

codec == <<args, result>>

hardware == <<line, in_waiting, events_queue, sent, returned>>

vars == <<commands, cls, status, data_event, current_page, rx, pc, events,
          raised, nframes, enq, written, sends, signals, fed, registry,
          initialized, init_pc, page_switch_in_progress, sender, page_changed,
          touched, refreshed, run_pc, poller, codec, hardware>>

\* The frames the device sends in this model: command succeeded, a fault code
\* (invalid variable), event launched / ready, startup, a touch press, the
\* current page ID, a number value and a string value.
DeviceFrames ==
    { <<CMD_FINISHED, 255, 255, 255>>,
      <<INVALID_VARIABLE, 255, 255, 255>>,
      <<EVENT_LAUNCHED, 255, 255, 255>>,
      <<EVENT_TOUCH_HEAD, 0, 1, 1, 255, 255, 255>>,
      <<CURRENT_PAGE_ID_HEAD, 1, 255, 255, 255>>,
      <<NUMBER_HEAD, 5, 0, 0, 0, 255, 255, 255>>,
      <<STRING_HEAD, 72, 105, 255, 255, 255>> }

\* NexDevice.__init__ with the command objects `cmds`, none of them created
\* yet but the device's own sendme command.
Constructed(cmds) ==
    /\ commands = <<>>
    /\ cls = [c \in cmds |-> IF c = sendme_command THEN "SendmeCommand" ELSE "none"]
    /\ status = [c \in cmds |-> "CREATED"]
    /\ data_event = [c \in cmds |-> None]
    /\ current_page = NoPage
    /\ rx = <<>>
    /\ pc = "idle"
    /\ events = <<>>
    /\ raised = "none"
    /\ nframes = 0
    /\ enq = <<>>
    /\ written = <<>>
    /\ sends = [c \in cmds |-> 0]
    /\ signals = <<>>
    /\ fed = <<>>
    /\ initialized = FALSE
    /\ init_pc = 0
    /\ page_switch_in_progress = [p \in PageNames |-> FALSE]
    /\ sender = [c \in cmds |-> <<>>]
    /\ page_changed = <<>>
    /\ touched = <<>>
    /\ refreshed = {}

\* The registry after the application has hooked its pages, in the order
\* `order` of their IDs, and their widgets.
Hooked(order) ==
    /\ pages_by_name = HookedPages(order).by_name
    /\ pages_by_id = HookedPages(order).by_id
    /\ D_WIDGETS_BY_NAME = HookedWidgets.by_name
    /\ D_WIDGETS_BY_CID = HookedWidgets.by_cid
    /\ call = NoCall

\* NexEventPoller.__init__; no poller has been started.
NoPoller ==
    /\ run_poll_loop = TRUE
    /\ lock = "free"
    /\ run_pc = "none"
    /\ thread_local_run = TRUE
    /\ stop_pc = "none"
    /\ polls_after_stop = 0

\* No function of the codec has been called.
NoCodec ==
    /\ args = <<>>
    /\ result = <<>>

\* AbstractSerialNex.__init__ with a port that has received nothing.
NoHardware ==
    /\ line = <<>>
    /\ in_waiting = <<>>
    /\ events_queue = <<>>
    /\ sent = <<>>
    /\ returned = <<>>

\* The session after construction and the hooking of pages 0 and 1.
Init == Constructed(Commands) /\ Hooked(<<0, 1>>) /\ NoPoller /\ NoCodec /\ NoHardware

\* init() has been called and has not returned: it is in one of its drain
\* loops.
InitRunning == init_pc \in 1..Len(InitScript(pages_by_id))

\* The number of frames the device sends in one behaviour: the frames of a
\* whole init() once init() has been called.
FrameBound == IF init_pc = 0 THEN MaxFrames ELSE MaxInitFrames

\* The number of commands enqueued in one behaviour: one for every command
\* object but the sendme command.
EnqBound == Cardinality(DOMAIN cls) - 1

\* The position of the poller's loop after the poll() call it made has
\* ended with exception exc: the msleep of line 307, or the end of run()
\* with the exception.  Another caller of poll() leaves the loop alone.
AfterPoll(rp, exc) ==
    IF rp # "poll" THEN rp
    ELSE IF exc = "none" THEN "msleep" ELSE "raised"

\* The caller is not inside poll(): poll() is not running, or it runs in the
\* thread of the poller and the caller in another one.
OutsidePoll == pc = "idle" \/ run_pc # "none"

\* The device puts one more frame on the wire.  poll() reads the transport
\* only in its drain, so a frame that arrives while poll() is running is
\* seen as one that arrives right after it returns.
DeviceSend(f) ==
    /\ pc = "idle"
    /\ nframes < FrameBound
    /\ nframes' = nframes + 1
    /\ rx' = Append(rx, f)
    /\ UNCHANGED <<commands, cls, status, data_event, current_page, pc, events,
                   raised, enq, written, sends, signals, fed, registry,
                   initialized, init_pc, page_switch_in_progress, sender,
                   page_changed, touched, refreshed, run_pc, poller,
                   codec, hardware>>

\* _on_enqueue_command appending at the right end of the deque.
OnEnqueueCommand_Append(q, c) == Append(q, c)

\* NexDevice._on_enqueue_command: the queue after the slot has run.
OnEnqueueCommand(q, c) == appendleft(q, c)

\* Application code creates a command of class k and sends it with a
\* widget's send_command: the enqueue_command signal reaches
\* NexDevice._on_enqueue_command, a direct call in the caller's thread.
EnqueueCommand(k) ==
    /\ OutsidePoll
    /\ Len(enq) < EnqBound
    /\ \E c \in 1..MaxEnq :
        /\ cls[c] = "none"
        /\ \A d \in 1..(c - 1) : cls[d] # "none"
        /\ cls' = [cls EXCEPT ![c] = k]
        /\ commands' = OnEnqueueCommand(commands, c)
        /\ enq' = Append(enq, c)
    /\ UNCHANGED <<status, data_event, current_page, rx, pc, events, raised,
                   nframes, written, sends, signals, fed, registry,
                   initialized, init_pc, page_switch_in_progress, sender,
                   page_changed, touched, refreshed, run_pc, poller,
                   codec, hardware>>

\* `self._sendme_command in self._commands`: deque membership by ==.
SendmeInCommands ==
    \E i \in 1..Len(commands) :
        \/ commands[i] = sendme_command
        \/ CommandEq(cls[sendme_command], status[sendme_command],
                     data_event[sendme_command],
                     cls[commands[i]], status[commands[i]], data_event[commands[i]])

\* get_current_page without the membership test of line 68.
GetCurrentPageQueue_NoTest(q, isIn, st) ==
    IF ~completed(st) THEN appendleft(q, sendme_command) ELSE q

\* NexDevice.get_current_page: the queue after the call.
GetCurrentPageQueue(q, isIn, st) ==
    IF isIn THEN q
    ELSE IF ~completed(st) THEN appendleft(q, sendme_command)
    ELSE q

\* NexDevice.get_current_page, called by application code.
GetCurrentPage ==
    /\ OutsidePoll
    /\ Len(enq) < EnqBound
    /\ commands' = GetCurrentPageQueue(commands, SendmeInCommands, status[sendme_command])
    /\ enq' = IF commands' # commands THEN Append(enq, sendme_command) ELSE enq
    /\ UNCHANGED <<cls, status, data_event, current_page, rx, pc, events, raised,
                   nframes, written, sends, signals, fed, registry,
                   initialized, init_pc, page_switch_in_progress, sender,
                   page_changed, touched, refreshed, run_pc, poller,
                   codec, hardware>>

\* The command objects created so far, the sendme command apart; the next
\* objects created are Created + 1, Created + 2, ...
Created == Cardinality({c \in DOMAIN cls : c # sendme_command /\ cls[c] # "none"})

\* NexDevice.select_page(pid) on a hooked page ID, lines 156-158: the page
\* becomes the current one, NexPage.show() sets its flag and sends a
\* PageCommand through _on_enqueue_command, page_changed is emitted.
SelectPageStep(pid) ==
    LET c == Created + 1
        page == ByPid(pages_by_id, pid).name
    IN
    /\ c \in DOMAIN cls
    /\ current_page' = pid
    /\ page_switch_in_progress' = [page_switch_in_progress EXCEPT ![page] = TRUE]
    /\ cls' = [cls EXCEPT ![c] = "PageCommand"]
    /\ sender' = [sender EXCEPT ![c] = <<page>>]
    /\ commands' = OnEnqueueCommand(commands, c)
    /\ enq' = Append(enq, c)
    /\ page_changed' = Append(page_changed, pid)

\* NexDevice.select_page called by application code, not during init().
SelectPage(pid) ==
    /\ OutsidePoll
    /\ ~InitRunning
    /\ Len(enq) < EnqBound
    /\ pid \in PidKeys(pages_by_id)
    /\ SelectPageStep(pid)
    /\ UNCHANGED <<status, data_event, rx, pc, events, raised, nframes, written,
                   sends, signals, fed, registry, initialized, init_pc,
                   touched, refreshed, run_pc, poller,
                   codec, hardware>>

\* init() going on without waiting for the queue to drain.
Drained_NoWait(q) == TRUE

\* `while self._commands: self.poll()` has ended: the queue is empty.
Drained(q) == q = <<>>

\* NexPage.onetime_refresh() of the page with ID pid (widgets.py:133-135):
\* unless the page switch is in progress, every widget of the page, in the
\* order of D_WIDGETS_BY_NAME, sends one GetPropertyCommand for each of its
\* ONETIME_REFRESH_VARIABLES (at most one per widget class here).
OnetimeRefreshStep(pid) ==
    LET page == ByPid(pages_by_id, pid).name
        readers == IF page_switch_in_progress[page] THEN <<>>
                   ELSE SelectSeq(D_WIDGETS_BY_NAME[page],
                                  LAMBDA w : ONETIME_REFRESH_VARIABLES(w.type) # <<>>)
        new == [i \in 1..Len(readers) |-> Created + i]
    IN
    /\ \A i \in 1..Len(new) : new[i] \in DOMAIN cls
    /\ cls' = [c \in DOMAIN cls |->
                 IF \E i \in 1..Len(new) : new[i] = c
                 THEN "GetPropertyCommand" ELSE cls[c]]
    /\ sender' = [c \in DOMAIN sender |->
                    IF \E i \in 1..Len(new) : new[i] = c
                    THEN <<page, readers[c - Created].name>> ELSE sender[c]]
    /\ commands' = extendleft(commands, new)
    /\ enq' = enq \o new
    /\ UNCHANGED <<current_page, page_switch_in_progress, page_changed>>

\* One step of InitScript.
InitDo(step) ==
    CASE step.op = "bkcmd" ->
            LET c == Created + 1 IN
            /\ c \in DOMAIN cls
            /\ cls' = [cls EXCEPT ![c] = "Command"]
            /\ commands' = extendleft(commands, <<c>>)
            /\ enq' = Append(enq, c)
            /\ UNCHANGED <<sender, current_page, page_switch_in_progress, page_changed>>
      [] step.op = "select_page" -> SelectPageStep(step.pid)
      [] OTHER -> OnetimeRefreshStep(step.pid)

\* init(), lines 95-107: called once, by the thread that runs everything
\* else, with no poller running: the input is flushed and the first step of
\* the script is done.
InitCall ==
    /\ init_pc = 0
    /\ pc = "idle"
    /\ run_pc = "none"
    /\ raised = "none"
    /\ rx' = <<>>
    /\ InitDo(InitScript(pages_by_id)[1])
    /\ init_pc' = 1
    /\ UNCHANGED <<status, data_event, pc, events, raised, nframes, written, sends,
                   signals, fed, registry, initialized, touched, refreshed,
                   run_pc, poller,
                   codec, hardware>>

\* init(), lines 108-124: a drain loop has ended with the queue empty (an
\* exception of poll() ends init()); the next step of the script is done, or
\* after the last one the session is marked initialized.
InitStep ==
    /\ InitRunning
    /\ pc = "idle"
    /\ raised = "none"
    /\ Drained(commands)
    /\ init_pc' = init_pc + 1
    /\ IF init_pc = Len(InitScript(pages_by_id))
       THEN /\ initialized' = TRUE
            /\ UNCHANGED <<commands, cls, sender, enq, current_page,
                           page_switch_in_progress, page_changed>>
       ELSE /\ InitDo(InitScript(pages_by_id)[init_pc + 1])
            /\ UNCHANGED initialized
    /\ UNCHANGED <<status, data_event, rx, pc, events, raised, nframes, written,
                   sends, signals, fed, registry, touched, refreshed, run_pc,
                   poller,
                   codec, hardware>>

\* Who calls poll(): the poller's loop at line 306 if a poller runs, the
\* drain loops of init() while the queue is not empty during init(), the
\* application at any time otherwise.
PollCalled ==
    IF run_pc # "none" THEN run_pc = "poll"
    ELSE IF InitRunning THEN ~Drained(commands) /\ raised = "none"
    ELSE TRUE

\* transport.read_next() until it returns nothing, MsgEvent.parse on each
\* frame: the events parsed, the frames left in the transport and the
\* exception that ended the loop.  An exception leaves poll() at once: the
\* frame that raised it has been read, the events parsed before it are in a
\* local list that is gone.
RECURSIVE Drain(_, _)
Drain(frames, acc) ==
    IF frames = <<>> THEN [events |-> acc, rx |-> <<>>, exc |-> "none"]
    ELSE LET event == MsgEventParse(Head(frames)) IN
         IF event.type = "raise"
         THEN [events |-> <<>>, rx |-> Tail(frames), exc |-> event.exc]
         ELSE Drain(Tail(frames), Append(acc, event))

\* poll(), lines 200-210: a call of poll() starts and drains the transport.
PollDrain ==
    /\ pc = "idle"
    /\ PollCalled
    /\ LET d == Drain(rx, <<>>) IN
        /\ rx' = d.rx
        /\ events' = d.events
        /\ raised' = d.exc
        /\ pc' = IF d.exc = "none" THEN "dispatch" ELSE "idle"
        /\ run_pc' = IF d.exc = "none" THEN run_pc ELSE AfterPoll(run_pc, d.exc)
    /\ refreshed' = {}
    /\ UNCHANGED <<commands, cls, status, data_event, current_page, nframes,
                   enq, written, sends, signals, fed, registry, initialized,
                   init_pc, page_switch_in_progress, sender, page_changed,
                   touched, poller,
                   codec, hardware>>

\* poll(), lines 216-225, for a touch event: get_page(event.pid) and
\* page.widget(event.cid) look the integer keys up in the ID tables (the
\* keys of the name tables are strings); a KeyError is caught and logged.
\* For a widget found, widget.pressed or widget.released is emitted; the
\* attribute does not exist on a widget class without the ITouchable mixin
\* and the AttributeError leaves poll().  press_event 1 is Event.Touch.Press.
TouchDispatch(by_id, by_cid, event) ==
    IF event.pid \notin PidKeys(by_id) THEN [exc |-> "none", emit |-> <<>>]
    ELSE LET page == ByPid(by_id, event.pid).name IN
         IF event.cid \notin CidKeys(by_cid[page]) THEN [exc |-> "none", emit |-> <<>>]
         ELSE LET widget == ByCid(by_cid[page], event.cid) IN
              IF ~ITouchable(widget.type)
              THEN [exc |-> "AttributeError", emit |-> <<>>]
              ELSE [exc |-> "none",
                    emit |-> <<<<event.pid, widget.name,
                                 IF event.press_event = 1 THEN "pressed"
                                 ELSE "released">>>>]

\* The test that takes no event for a touch event.
IsTouchEvent_Never(event) == FALSE

\* poll(), line 214: isinstance(event, TouchEvent).
IsTouchEvent(event) == event.type = "TouchEvent"

\* poll(), lines 212-226: the head of the for-loop.  A touch event is routed
\* to its widget (or logged) and leaves the queue alone; any other event is a
\* response, for which the deque is scanned.  After the last event poll()
\* goes on to transmit.
PollDispatch ==
    /\ pc = "dispatch"
    /\ IF events = <<>>
       THEN /\ pc' = "transmit"
            /\ UNCHANGED <<events, touched, raised, run_pc>>
       ELSE IF IsTouchEvent(Head(events))
       THEN LET t == TouchDispatch(pages_by_id, D_WIDGETS_BY_CID, Head(events)) IN
            /\ touched' = touched \o t.emit
            /\ raised' = t.exc
            /\ pc' = IF t.exc = "none" THEN "dispatch" ELSE "idle"
            /\ events' = IF t.exc = "none" THEN Tail(events) ELSE <<>>
            /\ run_pc' = IF t.exc = "none" THEN run_pc ELSE AfterPoll(run_pc, t.exc)
       ELSE /\ pc' = "scan"
            /\ UNCHANGED <<events, touched, raised, run_pc>>
    /\ UNCHANGED <<commands, cls, status, data_event, current_page, rx,
                   nframes, enq, written, sends, signals, fed, registry,
                   initialized, init_pc, page_switch_in_progress, sender,
                   page_changed, refreshed, poller,
                   codec, hardware>>

\* NexDevice._on_sendme_successful, the slot of the sendme command's
\* successful signal: the new state of the command, the cached page and the
\* page_changed emissions.  With no data event (AttributeError) or a page ID
\* that is not hooked (KeyError) the slot ends before it emits, assigns or
\* resets; the exception stays in the slot and emit() returns (where PyQt
\* aborts the process instead, nothing follows and no further state is
\* reached).
OnSendmeSuccessful(st, de, page) ==
    IF de = None \/ de.pid \notin PidKeys(pages_by_id)
    THEN [status |-> st, data_event |-> de, current_page |-> page, reset |-> FALSE,
          emit |-> <<>>]
    ELSE [status |-> CommandReset([status |-> st, data_event |-> de]).status,
          data_event |-> CommandReset([status |-> st, data_event |-> de]).data_event,
          current_page |-> de.pid, reset |-> TRUE,
          emit |-> IF page = NoPage \/ page # de.pid THEN <<de.pid>> ELSE <<>>]

\* NexDevice._on_sendme_failed
OnSendmeFailed(st, de, page) ==
    [status |-> CommandReset([status |-> st, data_event |-> de]).status,
     data_event |-> CommandReset([status |-> st, data_event |-> de]).data_event,
     current_page |-> NoPage, reset |-> TRUE, emit |-> <<>>]

\* NexPage._on_command_successful, the slot a page connects to the commands
\* it sends (widgets.py:170-178): the flags after a command of class k sent
\* by snd has emitted signal.  The slot of a widget, and both failure slots,
\* leave the flags alone.
OnCommandSignal(flags, snd, k, signal) ==
    IF signal = "successful" /\ Len(snd) = 1 /\ k = "PageCommand"
    THEN [flags EXCEPT ![snd[1]] = FALSE]
    ELSE flags

\* The scan feeding the event to a command that was never transmitted.
ScanBranch_FeedCreated(st) ==
    CASE st = "CREATED" -> "feed"
      [] st = "SENT" -> "feed"
      [] OTHER -> "rotate"

\* The branch poll() takes for the oldest command (lines 232-249).
ScanBranch(st) ==
    CASE st = "CREATED" -> "rotate"
      [] st = "SENT" -> "feed"
      [] OTHER -> "rotate"

\* Whether the while-loop ends after the branch (the break of line 245).
ScanBreaks(branch) == branch = "feed"

\* The command removed whether or not event() reported it completed.
AfterEvent_AlwaysPop(q, done) == pop(q)

\* The queue after command.event() returned `done` (lines 242-244).
AfterEvent(q, done) == IF done THEN pop(q) ELSE q

\* poll(), lines 230-249: one iteration of `while self._commands`.  In the
\* SENT branch command.event() runs with the slots of the signal it emits:
\* the sendme slots change the command and the current page, the slot of a
\* page clears its page-switch flag; the other slots of the widget layer
\* (widgets.py) change only the widget's own deque and cache, which are not
\* part of this state.
PollScan ==
    /\ pc = "scan"
    /\ IF commands = <<>>
       THEN /\ pc' = "dispatch"
            /\ events' = Tail(events)
            /\ UNCHANGED <<commands, status, data_event, current_page, signals, fed,
                           sends, page_changed, page_switch_in_progress>>
       ELSE LET command == Oldest(commands)
                event == Head(events)
                branch == ScanBranch(status[command])
                r == CommandEvent(cls[command], status[command], data_event[command], event)
                slot == IF command # sendme_command \/ r.signal = "none"
                        THEN [status |-> r.status, data_event |-> r.data_event,
                              current_page |-> current_page, reset |-> FALSE,
                              emit |-> <<>>]
                        ELSE IF r.signal = "successful"
                        THEN OnSendmeSuccessful(r.status, r.data_event, current_page)
                        ELSE OnSendmeFailed(r.status, r.data_event, current_page)
            IN
            IF branch = "feed"
            THEN /\ status' = [status EXCEPT ![command] = slot.status]
                 /\ data_event' = [data_event EXCEPT ![command] = slot.data_event]
                 /\ current_page' = slot.current_page
                 /\ page_changed' = page_changed \o slot.emit
                 /\ page_switch_in_progress' =
                        OnCommandSignal(page_switch_in_progress, sender[command],
                                        cls[command], r.signal)
                 /\ fed' = Append(fed, <<command, status[command], event>>)
                 /\ sends' = IF slot.reset THEN [sends EXCEPT ![command] = 0] ELSE sends
                 /\ signals' = IF r.signal = "none" THEN signals
                               ELSE Append(signals, <<command, r.signal, r.status_at_emit>>)
                 /\ commands' = AfterEvent(commands, r.completed)
                 /\ pc' = IF ScanBreaks(branch) THEN "dispatch" ELSE "scan"
                 /\ events' = IF ScanBreaks(branch) THEN Tail(events) ELSE events
            ELSE /\ commands' = rotate(commands)
                 /\ pc' = IF ScanBreaks(branch) THEN "dispatch" ELSE "scan"
                 /\ events' = IF ScanBreaks(branch) THEN Tail(events) ELSE events
                 /\ UNCHANGED <<status, data_event, current_page, signals, fed, sends,
                                page_changed, page_switch_in_progress>>
    /\ UNCHANGED <<cls, rx, raised, nframes, enq, written, registry, initialized,
                   init_pc, sender, touched, refreshed, run_pc, poller,
                   codec, hardware>>

\* The newest command taken for transmission instead of the oldest.
TransmitTarget_Newest(q) == q[1]

\* The command poll() looks at to transmit (line 255).
TransmitTarget(q) == Oldest(q)

\* A command still waiting for its response transmitted again.
ShouldSend_Retry(q, st) == q # <<>> /\ ~completed(st[TransmitTarget(q)])

\* Whether poll() transmits it (lines 251 and 256).
ShouldSend(q, st) == q # <<>> /\ st[TransmitTarget(q)] = "CREATED"

\* The refresh step taken whether or not the session is initialized.
ShouldRefresh_Uninitialized(init, q) == q = <<>>

\* Whether poll() takes its refresh step (line 260).
ShouldRefresh(init, q) == init /\ q = <<>>

\* The objects whose refresh() the refresh step calls (lines 264-268,
\* widgets.py:127-130): the device, the current page if there is one, and
\* the widgets of that page unless its page switch is in progress.  No
\* widget class defines REFRESH_VARIABLES, so no refresh() sends a command.
RefreshHooks(page, flags, by_id, by_name) ==
    IF page = NoPage THEN {<<"device">>}
    ELSE LET name == ByPid(by_id, page).name IN
         {<<"device">>, <<name>>}
         \cup (IF flags[name] THEN {}
               ELSE {<<name, by_name[name][i].name>> : i \in 1..Len(by_name[name])})

\* poll(), lines 251-270: transmit the oldest command if it is CREATED, take
\* the refresh step if the session is initialized and the queue empty, and
\* return to the caller.
PollTransmit ==
    /\ pc = "transmit"
    /\ pc' = "idle"
    /\ IF ShouldSend(commands, status)
       THEN LET command == TransmitTarget(commands) IN
            /\ written' = Append(written, command)
            /\ sends' = [sends EXCEPT ![command] = @ + 1]
            /\ status' = [status EXCEPT ![command] = CommandSend(status[command])]
       ELSE UNCHANGED <<written, sends, status>>
    /\ refreshed' = IF ShouldRefresh(initialized, commands)
                    THEN RefreshHooks(current_page, page_switch_in_progress,
                                      pages_by_id, D_WIDGETS_BY_NAME)
                    ELSE refreshed
    /\ run_pc' = AfterPoll(run_pc, "none")
    /\ UNCHANGED <<commands, cls, data_event, current_page, rx, events, raised,
                   nframes, enq, signals, fed, registry, initialized, init_pc,
                   page_switch_in_progress, sender, page_changed, touched,
                   poller,
                   codec, hardware>>

Next ==
    \/ \E f \in DeviceFrames : DeviceSend(f)
    \/ \E k \in WidgetCommandClasses : EnqueueCommand(k)
    \/ GetCurrentPage
    \/ PollDrain
    \/ PollDispatch
    \/ PollScan
    \/ PollTransmit

Spec == Init /\ [][Next]_vars

\* The poll loop's scheduler calls poll() to its end: once poll() has
\* started, its next step is taken (the thread running it is not stopped).
FairSpec == Spec /\ WF_vars(PollDispatch \/ PollScan \/ PollTransmit)

\* ------------------------------------------- the session: pages and touch
\* The frames of the session specification: command succeeded, the current
\* page ID for the hooked pages 0 and 1 and for a page that is not hooked,
\* and touch frames (page, component, press) for the text widget of page 0
\* pressed and released, the picture of page 0 and a component that is not
\* hooked on page 1.
SessionFrames ==
    { <<CMD_FINISHED, 255, 255, 255>>,
      <<CURRENT_PAGE_ID_HEAD, 0, 255, 255, 255>>,
      <<CURRENT_PAGE_ID_HEAD, 1, 255, 255, 255>>,
      <<CURRENT_PAGE_ID_HEAD, 2, 255, 255, 255>>,
      <<EVENT_TOUCH_HEAD, 0, 1, 1, 255, 255, 255>>,
      <<EVENT_TOUCH_HEAD, 0, 1, 0, 255, 255, 255>>,
      <<EVENT_TOUCH_HEAD, 0, 2, 1, 255, 255, 255>>,
      <<EVENT_TOUCH_HEAD, 1, 3, 1, 255, 255, 255>> }

\* The application selects pages and asks for the current page while it
\* polls.
SessionNext ==
    \/ \E f \in SessionFrames : DeviceSend(f)
    \/ \E pid \in {0, 1} : SelectPage(pid)
    \/ GetCurrentPage
    \/ PollDrain
    \/ PollDispatch
    \/ PollScan
    \/ PollTransmit

SessionSpec == Init /\ [][SessionNext]_vars

\* ------------------------------------------------------------------ init()
\* The command objects of a session that runs init(): the sendme command,
\* the mode command and the last page command, and one page command and at
\* most one read per widget for every page.
InitCommands ==
    0..(2 + Len(HookedPages(<<0, 1>>).by_id)
          + Len(HookedWidgets.by_name["page0"]) + Len(HookedWidgets.by_name["page1"]))

\* The frames of the init() specification: command succeeded, event
\* launched (which fails the command it is given to) and a string value.
InitFrames ==
    { <<CMD_FINISHED, 255, 255, 255>>,
      <<EVENT_LAUNCHED, 255, 255, 255>>,
      <<STRING_HEAD, 72, 105, 255, 255, 255>> }

\* The session after construction with pages 0 and 1 hooked in either order.
InitInit ==
    /\ Constructed(InitCommands)
    /\ \E order \in {<<0, 1>>, <<1, 0>>} : Hooked(order)
    /\ NoPoller
    /\ NoCodec
    /\ NoHardware

\* get_current_page called by the application after init() has returned.
GetCurrentPageInitialized ==
    /\ initialized
    /\ GetCurrentPage

\* The application polls, calls init() once, and after init() has returned
\* asks for the current page and polls again.
InitNext ==
    \/ \E f \in InitFrames : DeviceSend(f)
    \/ InitCall
    \/ InitStep
    \/ GetCurrentPageInitialized
    \/ PollDrain
    \/ PollDispatch
    \/ PollScan
    \/ PollTransmit

InitSpec == InitInit /\ [][InitNext]_vars

\* ----------------------------------------------------------------- hooking
\* NexDevice.hook_page(name, pid), called by the application.
HookPage(name, pid) ==
    /\ LET r == hook_page(pages_by_name, pages_by_id, name, pid) IN
        /\ pages_by_name' = r.by_name
        /\ pages_by_id' = r.by_id
        /\ raised' = r.exc
    /\ call' = [op |-> "hook_page", page |-> "", type |-> "", name |-> name, id |-> pid]
    /\ UNCHANGED <<commands, cls, status, data_event, current_page, rx, pc, events,
                   nframes, enq, written, sends, signals, fed, D_WIDGETS_BY_NAME,
                   D_WIDGETS_BY_CID, initialized, init_pc,
                   page_switch_in_progress, sender, page_changed, touched,
                   refreshed, run_pc, poller,
                   codec, hardware>>

\* NexPage.hook_widget(widget_type, name, cid), called by the application
\* on a page that hook_page returned.
HookWidget(page, widget_type, name, cid) ==
    /\ page \in NameKeys(pages_by_name)
    /\ LET r == hook_widget(D_WIDGETS_BY_NAME[page], D_WIDGETS_BY_CID[page],
                            widget_type, name, cid) IN
        /\ D_WIDGETS_BY_NAME' = [D_WIDGETS_BY_NAME EXCEPT ![page] = r.by_name]
        /\ D_WIDGETS_BY_CID' = [D_WIDGETS_BY_CID EXCEPT ![page] = r.by_cid]
        /\ raised' = r.exc
    /\ call' = [op |-> "hook_widget", page |-> page, type |-> widget_type,
                name |-> name, id |-> cid]
    /\ UNCHANGED <<commands, cls, status, data_event, current_page, rx, pc, events,
                   nframes, enq, written, sends, signals, fed, pages_by_name,
                   pages_by_id, initialized, init_pc, page_switch_in_progress,
                   sender, page_changed, touched, refreshed, run_pc, poller,
                   codec, hardware>>

\* The session after construction: nothing is hooked.
HookInit ==
    /\ Constructed(Commands)
    /\ pages_by_name = <<>>
    /\ pages_by_id = <<>>
    /\ D_WIDGETS_BY_NAME = [p \in PageNames |-> <<>>]
    /\ D_WIDGETS_BY_CID = [p \in PageNames |-> <<>>]
    /\ call = NoCall
    /\ NoPoller
    /\ NoCodec
    /\ NoHardware

HookNext ==
    \/ \E name \in PageNames, pid \in {0, 1, NoId} : HookPage(name, pid)
    \/ \E page \in PageNames, widget_type \in {"text"}, name \in WidgetNames,
          cid \in {1, NoId} : HookWidget(page, widget_type, name, cid)

HookSpec == HookInit /\ [][HookNext]_vars

\* ---------------------------------------------------------- NexEventPoller
\* run(), line 297: lockForRead() returns once no writer holds the lock.
RunLockForRead ==
    /\ run_pc = "lockForRead"
    /\ lock # "write"
    /\ lock' = "read"
    /\ run_pc' = "read"
    /\ UNCHANGED <<commands, cls, status, data_event, current_page, rx, pc, events,
                   raised, nframes, enq, written, sends, signals, fed, registry,
                   initialized, init_pc, page_switch_in_progress, sender,
                   page_changed, touched, refreshed, run_poll_loop,
                   thread_local_run, stop_pc, polls_after_stop,
                   codec, hardware>>

\* run(), line 298: the flag is copied to the thread-local variable.
RunRead ==
    /\ run_pc = "read"
    /\ thread_local_run' = run_poll_loop
    /\ run_pc' = "unlock"
    /\ UNCHANGED <<commands, cls, status, data_event, current_page, rx, pc, events,
                   raised, nframes, enq, written, sends, signals, fed, registry,
                   initialized, init_pc, page_switch_in_progress, sender,
                   page_changed, touched, refreshed, run_poll_loop, lock,
                   stop_pc, polls_after_stop,
                   codec, hardware>>

\* run(), line 300: the read lock is released.
RunUnlock ==
    /\ run_pc = "unlock"
    /\ lock' = "free"
    /\ run_pc' = "check"
    /\ UNCHANGED <<commands, cls, status, data_event, current_page, rx, pc, events,
                   raised, nframes, enq, written, sends, signals, fed, registry,
                   initialized, init_pc, page_switch_in_progress, sender,
                   page_changed, touched, refreshed, run_poll_loop,
                   thread_local_run, stop_pc, polls_after_stop,
                   codec, hardware>>

\* run(), line 302: whether the loop goes on to poll().
RunContinues(run) == run

\* run(), lines 302-306: the loop breaks if the copy of the flag is false,
\* else it calls device.poll().
RunCheck ==
    /\ run_pc = "check"
    /\ IF RunContinues(thread_local_run)
       THEN /\ run_pc' = "poll"
            /\ polls_after_stop' = IF stop_pc = "returned" THEN polls_after_stop + 1
                                   ELSE polls_after_stop
       ELSE /\ run_pc' = "exited"
            /\ UNCHANGED polls_after_stop
    /\ UNCHANGED <<commands, cls, status, data_event, current_page, rx, pc, events,
                   raised, nframes, enq, written, sends, signals, fed, registry,
                   initialized, init_pc, page_switch_in_progress, sender,
                   page_changed, touched, refreshed, run_poll_loop, lock,
                   thread_local_run, stop_pc,
                   codec, hardware>>

\* run(), line 307: msleep() ends and the loop starts over.
RunSleep ==
    /\ run_pc = "msleep"
    /\ run_pc' = "lockForRead"
    /\ UNCHANGED <<commands, cls, status, data_event, current_page, rx, pc, events,
                   raised, nframes, enq, written, sends, signals, fed, registry,
                   initialized, init_pc, page_switch_in_progress, sender,
                   page_changed, touched, refreshed, poller,
                   codec, hardware>>

\* stop() is called by another thread, once.
StopCall ==
    /\ stop_pc = "none"
    /\ stop_pc' = "lockForWrite"
    /\ UNCHANGED <<commands, cls, status, data_event, current_page, rx, pc, events,
                   raised, nframes, enq, written, sends, signals, fed, registry,
                   initialized, init_pc, page_switch_in_progress, sender,
                   page_changed, touched, refreshed, run_pc, run_poll_loop, lock,
                   thread_local_run, polls_after_stop,
                   codec, hardware>>

\* stop(), line 288: lockForWrite() returns once nobody holds the lock.
StopLockForWrite ==
    /\ stop_pc = "lockForWrite"
    /\ lock = "free"
    /\ lock' = "write"
    /\ stop_pc' = "write"
    /\ UNCHANGED <<commands, cls, status, data_event, current_page, rx, pc, events,
                   raised, nframes, enq, written, sends, signals, fed, registry,
                   initialized, init_pc, page_switch_in_progress, sender,
                   page_changed, touched, refreshed, run_pc, run_poll_loop,
                   thread_local_run, polls_after_stop,
                   codec, hardware>>

\* stop(), line 289: the flag is cleared.
StopWrite ==
    /\ stop_pc = "write"
    /\ run_poll_loop' = FALSE
    /\ stop_pc' = "unlock"
    /\ UNCHANGED <<commands, cls, status, data_event, current_page, rx, pc, events,
                   raised, nframes, enq, written, sends, signals, fed, registry,
                   initialized, init_pc, page_switch_in_progress, sender,
                   page_changed, touched, refreshed, run_pc, lock,
                   thread_local_run, polls_after_stop,
                   codec, hardware>>

\* stop(), line 291: the write lock is released and stop() returns.
StopUnlock ==
    /\ stop_pc = "unlock"
    /\ lock' = "free"
    /\ stop_pc' = "returned"
    /\ UNCHANGED <<commands, cls, status, data_event, current_page, rx, pc, events,
                   raised, nframes, enq, written, sends, signals, fed, registry,
                   initialized, init_pc, page_switch_in_progress, sender,
                   page_changed, touched, refreshed, run_pc, run_poll_loop,
                   thread_local_run, polls_after_stop,
                   codec, hardware>>

\* The frames of the poller specification: command succeeded and event
\* launched.
PollerFrames ==
    { <<CMD_FINISHED, 255, 255, 255>>,
      <<EVENT_LAUNCHED, 255, 255, 255>> }

\* The session with a poller started on the thread pool: run() is about to
\* take the read lock for the first time.
PollerInit ==
    /\ Constructed(Commands)
    /\ Hooked(<<0, 1>>)
    /\ run_poll_loop = TRUE
    /\ lock = "free"
    /\ run_pc = "lockForRead"
    /\ thread_local_run = TRUE
    /\ stop_pc = "none"
    /\ polls_after_stop = 0
    /\ NoCodec
    /\ NoHardware

\* The thread of the poller.
PollerThread ==
    \/ RunLockForRead
    \/ RunRead
    \/ RunUnlock
    \/ RunCheck
    \/ PollDrain
    \/ PollDispatch
    \/ PollScan
    \/ PollTransmit
    \/ RunSleep

\* The thread that calls stop().
StopThread ==
    \/ StopCall
    \/ StopLockForWrite
    \/ StopWrite
    \/ StopUnlock

\* The poller's thread runs poll() while the threads of the application
\* send commands, ask for the current page and stop the poller.
PollerNext ==
    \/ \E f \in PollerFrames : DeviceSend(f)
    \/ EnqueueCommand("SetPropertyCommand")
    \/ GetCurrentPage
    \/ PollerThread
    \/ StopThread

PollerSpec == PollerInit /\ [][PollerNext]_vars

\* The threads are scheduled: the poller's thread takes its next step when
\* it can, and a stop() that has been called goes on to return.
FairPollerSpec ==
    /\ PollerSpec
    /\ WF_vars(PollerThread)
    /\ WF_vars(StopLockForWrite \/ StopWrite \/ StopUnlock)

\* ------------------------------------------------------ the frame parser
\* The longest payload of a frame given to the parser.
MaxPayload == 5

\* The byte strings given to the parser: the empty string and a first byte
\* followed by a payload of up to MaxPayload bytes, with and without the
\* terminator.  The first bytes are the codes of the event classes, three
\* fault codes and a byte that is no code (0x50).
ParseFrames ==
    LET HeadBytes ==
            { INVALID_CMD, CMD_FINISHED, INVALID_VARIABLE, EVENT_TOUCH_HEAD,
              CURRENT_PAGE_ID_HEAD, EVENT_POSITION_HEAD, EVENT_SLEEP_POSITION_HEAD,
              STRING_HEAD, NUMBER_HEAD, EVENT_LAUNCHED, 80 }
        PayloadBytes == {0, 1, 128, 255}
        Payloads == UNION { [1..n -> PayloadBytes] : n \in 0..MaxPayload }
    IN  {<<>>} \cup
        { <<h>> \o p \o t : h \in HeadBytes, p \in Payloads, t \in {<<>>, S_END_OF_CMD} }

\* No call of the parser has returned.
NoResult == <<>>

\* A byte string has reached the caller of MsgEvent.parse.
ParseInit ==
    /\ Constructed(Commands)
    /\ Hooked(<<0, 1>>)
    /\ NoPoller
    /\ NoHardware
    /\ args \in ParseFrames
    /\ result = NoResult

\* MsgEvent.parse(args) returns an event or raises.
Parse ==
    /\ result = NoResult
    /\ result' = MsgEventParse(args)
    /\ UNCHANGED <<commands, cls, status, data_event, current_page, rx, pc, events,
                   raised, nframes, enq, written, sends, signals, fed, registry,
                   initialized, init_pc, page_switch_in_progress, sender,
                   page_changed, touched, refreshed, run_pc, poller, args,
                   hardware>>

\* The parser is called once on the byte string.
ParseSpec == ParseInit /\ [][Parse]_vars

\* ------------------------------------------------- set-property commands
\* The arguments given to SetPropertyCommand: the names t0 and n0, the
\* properties txt and val, and as value a text of up to MaxText characters
\* among H, i, the double quote, U+00FF and U+0100, the text "Hi" with its
\* double quotes, an int or a bool.
SetPropertyArgs ==
    LET t0 == <<116, 48>>
        n0 == <<110, 48>>
        txt == <<116, 120, 116>>
        val == <<118, 97, 108>>
        Texts == UNION { [1..n -> {72, 105, 34, 255, 256}] : n \in 0..MaxText }
                     \cup { <<34, 72, 105, 34>> }
        Values == { [kind |-> "str", chars |-> c] : c \in Texts }
                     \cup { [kind |-> "int", n |-> n] : n \in {-1, 0, 7, 42, 100} }
                     \cup { [kind |-> "bool", b |-> b] : b \in BOOLEAN }
    IN  {t0, n0} \X {txt, val} \X Values

\* A widget's setter is about to build its command: IStringValued.text
\* passes (self.name, "txt", value), INumericalUnsignedValued.value passes
\* (self.name, "val", value).
SetPropertyInit ==
    /\ Constructed(Commands)
    /\ Hooked(<<0, 1>>)
    /\ NoPoller
    /\ NoHardware
    /\ args \in SetPropertyArgs
    /\ result = NoResult

\* SetPropertyCommand(oid, name, value) is constructed; result is its
\* command attribute.
SetPropertyBuild ==
    /\ result = NoResult
    /\ result' = SetPropertyCommand(args[1], args[2], args[3])
    /\ UNCHANGED <<commands, cls, status, data_event, current_page, rx, pc, events,
                   raised, nframes, enq, written, sends, signals, fed, registry,
                   initialized, init_pc, page_switch_in_progress, sender,
                   page_changed, touched, refreshed, run_pc, poller, args,
                   hardware>>

\* The command is built once from the arguments.
SetPropertySpec == SetPropertyInit /\ [][SetPropertyBuild]_vars

\* ------------------------------------------------------------ hardware.py
\* The number of frames the device sends.
MaxSent == 3

\* MIN_SIZE_READ, line 20.
MIN_SIZE_READ == Len(S_END_OF_CMD) + 1

\* TERMINATOR_SIZE, line 21.
TERMINATOR_SIZE == Len(S_END_OF_CMD)

\* bytearray.find(S_END_OF_CMD, start, end) with 1-based positions: the first
\* place at or after start where the terminator lies within the first end
\* bytes, or 0 (Python -1) if there is none.
find(buffer, start, end) ==
    LET places == { p \in start..(end - TERMINATOR_SIZE + 1) :
                      SubSeq(buffer, p, p + TERMINATOR_SIZE - 1) = S_END_OF_CMD }
    IN  IF places = {} THEN 0 ELSE CHOOSE p \in places : \A q \in places : p <= q

\* read_next(), lines 68-76: the number of sp.read(1) calls of the trickle
\* loop, which ends as soon as the last three bytes read are the
\* terminator; incoming are the bytes that reach the port while sp.read(1)
\* blocks.  -1: the loop does not end with these bytes.
Trickle(chunk, incoming) ==
    LET ends == { k \in 0..Len(incoming) :
                    LET buffer == chunk \o SubSeq(incoming, 1, k)
                    IN  SubSeq(buffer, Len(buffer) - TERMINATOR_SIZE + 1, Len(buffer))
                            = S_END_OF_CMD }
    IN  IF ends = {} THEN -1 ELSE CHOOSE k \in ends : \A j \in ends : k <= j

\* read_next(), lines 78-84: the splitting loop from position start; every
\* piece up to the next terminator is put at the left end of the queue.
RECURSIVE SplitEvents(_, _, _)
SplitEvents(buffer, start, queue) ==
    LET pos == find(buffer, start, Len(buffer))
    IN  IF pos = 0 THEN queue
        ELSE SplitEvents(buffer, pos + TERMINATOR_SIZE,
                         appendleft(queue, SubSeq(buffer, start, pos + TERMINATOR_SIZE - 1)))

\* The device puts the bytes of a frame on the line.
DeviceEmit(f) ==
    /\ Len(sent) < MaxSent
    /\ sent' = Append(sent, f)
    /\ line' = line \o f
    /\ UNCHANGED <<commands, cls, status, data_event, current_page, rx, pc, events,
                   raised, nframes, enq, written, sends, signals, fed, registry,
                   initialized, init_pc, page_switch_in_progress, sender,
                   page_changed, touched, refreshed, run_pc, poller, codec,
                   in_waiting, events_queue, returned>>

\* The next n bytes of the line reach the input buffer of the port.
Arrive(n) ==
    /\ n <= Len(line)
    /\ in_waiting' = in_waiting \o SubSeq(line, 1, n)
    /\ line' = SubSeq(line, n + 1, Len(line))
    /\ UNCHANGED <<commands, cls, status, data_event, current_page, rx, pc, events,
                   raised, nframes, enq, written, sends, signals, fed, registry,
                   initialized, init_pc, page_switch_in_progress, sender,
                   page_changed, touched, refreshed, run_pc, poller, codec,
                   events_queue, sent, returned>>

\* read_next(), lines 49-85, as one step; result is what the call returns.
\* A queued frame is returned first (lines 53-54).  With fewer than
\* MIN_SIZE_READ bytes in the port the call returns b'' (lines 61-63).
\* Otherwise the call reads all the bytes of the port, trickles (sp.read(1)
\* blocks until the line delivers a byte), splits the buffer and returns
\* the oldest frame of the queue.
ReadNext ==
    /\ IF events_queue # <<>>
       THEN /\ result' = Oldest(events_queue)
            /\ returned' = Append(returned, Oldest(events_queue))
            /\ events_queue' = pop(events_queue)
            /\ UNCHANGED <<line, in_waiting>>
       ELSE IF Len(in_waiting) < MIN_SIZE_READ
       THEN /\ result' = <<>>
            /\ UNCHANGED <<line, in_waiting, events_queue, returned>>
       ELSE LET k == Trickle(in_waiting, line)
                buffer == in_waiting \o SubSeq(line, 1, k)
                queue == SplitEvents(buffer, 1, events_queue)
            IN  /\ k # -1
                /\ in_waiting' = <<>>
                /\ line' = SubSeq(line, k + 1, Len(line))
                /\ result' = Oldest(queue)
                /\ returned' = Append(returned, Oldest(queue))
                /\ events_queue' = pop(queue)
    /\ UNCHANGED <<commands, cls, status, data_event, current_page, rx, pc, events,
                   raised, nframes, enq, written, sends, signals, fed, registry,
                   initialized, init_pc, page_switch_in_progress, sender,
                   page_changed, touched, refreshed, run_pc, poller, args, sent>>

\* The device sends command succeeded, page 1, the number 5 and the number
\* 0xFFFFFFFF in any order; the bytes reach the port in pieces of up to 8
\* bytes while the application calls read_next().
HardwareNext ==
    \/ \E f \in { <<CMD_FINISHED, 255, 255, 255>>,
                  <<CURRENT_PAGE_ID_HEAD, 1, 255, 255, 255>>,
                  <<NUMBER_HEAD, 5, 0, 0, 0, 255, 255, 255>>,
                  <<NUMBER_HEAD, 255, 255, 255, 255, 255, 255, 255>> } : DeviceEmit(f)
    \/ \E n \in 1..(2 * MIN_SIZE_READ) : Arrive(n)
    \/ ReadNext

\* The transport after construction, with the device and the application.
HardwareSpec == Init /\ [][HardwareNext]_vars

\* ------------------------------------------------------- NexDevice.reset
\* reset(), lines 127-134, with the device's answer: the device reboots and
\* sends the startup frame 00 00 00 FF FF FF and the ready frame 88 FF FF FF,
\* which wait in the transport for the next poll().
DeviceReset ==
    /\ pc = "idle"
    /\ nframes + 2 <= FrameBound
    /\ nframes' = nframes + 2
    /\ rx' = rx \o << <<INVALID_CMD, 0, 0, 255, 255, 255>>,
                      <<EVENT_LAUNCHED, 255, 255, 255>> >>
    /\ UNCHANGED <<commands, cls, status, data_event, current_page, pc, events,
                   raised, enq, written, sends, signals, fed, registry,
                   initialized, init_pc, page_switch_in_progress, sender,
                   page_changed, touched, refreshed, run_pc, poller,
                   codec, hardware>>

\* The application resets the device while it sends commands and polls.
ResetNext ==
    \/ DeviceReset
    \/ \E k \in WidgetCommandClasses : EnqueueCommand(k)
    \/ GetCurrentPage
    \/ PollDrain
    \/ PollDispatch
    \/ PollScan
    \/ PollTransmit

ResetSpec == Init /\ [][ResetNext]_vars

\* ------------------------------------------------- a responsive device
\* The device answers the commands it receives, in the order it receives
\* them: at most one data frame for a command that reads a value (the
\* number 5 for a property, page 1 for sendme), then one final frame,
\* command succeeded or the fault code invalid variable.  `sent` logs the
\* frames; the final frames in it are the answers completed so far, and the
\* command awaited is the next one written to the transport.  The frame
\* reaches the transport wherever poll() stands.
DeviceAnswer(f) ==
    LET IsFinal(g) == g[1] \in {CMD_FINISHED, INVALID_VARIABLE}
        finals == Cardinality({i \in 1..Len(sent) : IsFinal(sent[i])})
        awaited == written[finals + 1]
    IN  /\ finals < Len(written)
        /\ IF IsFinal(f) THEN TRUE
           ELSE /\ D_BYTE0_EVENT[f[1]] \in DATA_EVENT_CLASSES(cls[awaited])
                /\ IF sent = <<>> THEN TRUE ELSE IsFinal(sent[Len(sent)])
        /\ sent' = Append(sent, f)
        /\ rx' = Append(rx, f)
        /\ nframes' = nframes + 1
        /\ UNCHANGED <<commands, cls, status, data_event, current_page, pc, events,
                       raised, enq, written, sends, signals, fed, registry,
                       initialized, init_pc, page_switch_in_progress, sender,
                       page_changed, touched, refreshed, run_pc, poller,
                       codec, line, in_waiting, events_queue, returned>>

\* The device sends the final frame of the answer it owes.
DeviceFinal ==
    \E f \in { <<CMD_FINISHED, 255, 255, 255>>,
               <<INVALID_VARIABLE, 255, 255, 255>> } : DeviceAnswer(f)

\* The application sends commands and asks for the current page between
\* the polls; the device answers what it is sent.
ResponsiveNext ==
    \/ DeviceFinal
    \/ \E f \in { <<NUMBER_HEAD, 5, 0, 0, 0, 255, 255, 255>>,
                  <<CURRENT_PAGE_ID_HEAD, 1, 255, 255, 255>> } : DeviceAnswer(f)
    \/ \E k \in {"SetPropertyCommand", "GetPropertyCommand"} : EnqueueCommand(k)
    \/ GetCurrentPage
    \/ PollDrain
    \/ PollDispatch
    \/ PollScan
    \/ PollTransmit

\* poll() is called again and again and runs to its end, and the device
\* sends the final frame it owes.
ResponsiveSpec ==
    /\ Init
    /\ [][ResponsiveNext]_vars
    /\ WF_vars(PollDrain \/ PollDispatch \/ PollScan \/ PollTransmit)
    /\ WF_vars(DeviceFinal)

\* ------------------------------------------------------ NexWidget.commands
\* The commands sent through the page (<<page>>) or widget (<<page, widget>>)
\* w with send_command (widgets.py:63-68), oldest first.
SentThrough(w) == SelectSeq(enq, LAMBDA c : sender[c] = w)

\* The number of times a completion slot of w has run (widgets.py:43-61 and
\* 170-178): once for every signal emitted by a command sent through w.
SlotRuns(w) ==
    Cardinality({i \in 1..Len(signals) : sender[signals[i][1]] = w})

\* NexWidget.commands of w (widgets.py:38): send_command puts the command at
\* the left end (line 65), each completion slot removes the one at the
\* right end (lines 49, 59 and 175).
WidgetDeque(w) ==
    LET through == SentThrough(w) IN
    extendleft(<<>>, SubSeq(through, SlotRuns(w) + 1, Len(through)))

\* ---------------------------------------------------------------- claims
Range(q) == {q[i] : i \in 1..Len(q)}

IsPrefix(p, q) == Len(p) <= Len(q) /\ \A i \in 1..Len(p) : p[i] = q[i]

\* poll() is about to give the event Head(events) to the oldest command.
Feeding ==
    /\ pc = "scan"
    /\ commands # <<>>
    /\ status[Oldest(commands)] = "SENT"

\* The event Head(events) is a final one for command c (not a data event).
FinalFor(c, event) == event.type \notin DATA_EVENT_CLASSES(cls[c])

\* C1: in every reachable state at most one command of the device queue has
\* status SENT, and if one has, it is the oldest (rightmost) entry.
C1_OneInFlightOldest ==
    \A i \in 1..Len(commands) : status[commands[i]] = "SENT" => i = Len(commands)

\* C1 witness: the oldest command is in flight while two more, one of them
\* the sendme command, wait behind it.
C1_Witness ==
    /\ Len(commands) = 3
    /\ status[Oldest(commands)] = "SENT"
    /\ sendme_command \in Range(commands)

\* C2: every call of poll() terminates: a poll() that has started returns.
C2_PollTerminates == (pc # "idle") ~> (pc = "idle")

\* C2, the step the claim names: a response frame that finds the oldest
\* command not SENT makes poll() rotate the queue and leave the scan of
\* that frame.
C2_RotateEndsScan ==
    [][(pc = "scan" /\ commands # <<>> /\ status[Oldest(commands)] # "SENT")
        => pc' # "scan"]_vars

\* C3: a frame with a device-reported fault code that arrives while a command
\* is SENT does not make poll() raise.
C3_FaultFrameDoesNotRaise ==
    ~(/\ raised = "NexMessageException"
      /\ commands # <<>>
      /\ status[Oldest(commands)] = "SENT")

\* C4: commands are transmitted in the order they were enqueued, and a
\* command is transmitted only when every command transmitted before it is
\* no longer SENT.
C4_TransmitInEnqueueOrder ==
    /\ IsPrefix(written, enq)
    /\ \A i \in 1..(Len(written) - 1) :
           status[written[i]] = "SENT" => written[i] = written[Len(written)]

\* C4 witness: three commands were enqueued and all three were transmitted.
C4_Witness == Len(written) = 3 /\ Len(enq) = 3

\* C5, one step: poll() gives a response frame only to a command whose status
\* is SENT; while poll() dispatches frames, a CREATED command keeps its
\* status and its data event.
C5_Step ==
    pc \in {"dispatch", "scan"} =>
        /\ fed' # fed =>
              LET last == fed'[Len(fed')] IN
              /\ fed' = Append(fed, last)
              /\ last[2] = "SENT"
              /\ status[last[1]] = "SENT"
        /\ \A c \in Commands :
               status[c] = "CREATED" =>
                   (status'[c] = "CREATED" /\ data_event'[c] = data_event[c])

\* C5: a response frame is fed only to a SENT command, and no frame changes
\* the status or the data event of a CREATED command.
C5_FramesOnlyToSent == [][C5_Step]_vars

\* C5 witness: a response frame was dispatched while only CREATED commands
\* and one SENT command were queued, and the SENT one got it.
C5_Witness ==
    /\ fed # <<>>
    /\ Len(commands) >= 2
    /\ Oldest(commands) = fed[Len(fed)][1]
    /\ status[commands[1]] = "CREATED"

\* C6, one step: a status changes only CREATED->SENT together with the write
\* to the transport, SENT->SUCCESSFUL on a CommandSucceeded frame,
\* SENT->ERROR on any other final frame, or to CREATED by the reset of the
\* sendme command after its notification; a data event of one of the
\* command's data-event classes is stored, the status stays, the command is
\* reported not completed (it stays queued) and no signal is emitted.
C6_Step ==
    /\ \A c \in Commands :
        status'[c] # status[c] =>
            \/ /\ status[c] = "CREATED"
               /\ status'[c] = "SENT"
               /\ written' = Append(written, c)
            \/ /\ status[c] = "SENT"
               /\ status'[c] = "SUCCESSFUL"
               /\ Feeding
               /\ c = Oldest(commands)
               /\ Head(events).type = "CommandSucceeded"
            \/ /\ status[c] = "SENT"
               /\ status'[c] = "ERROR"
               /\ Feeding
               /\ c = Oldest(commands)
               /\ FinalFor(c, Head(events))
               /\ Head(events).type # "CommandSucceeded"
            \/ /\ status'[c] = "CREATED"
               /\ data_event'[c] = None
               /\ c = sendme_command
               /\ Len(signals') = Len(signals) + 1
    /\ (Feeding /\ ~FinalFor(Oldest(commands), Head(events))) =>
        /\ data_event'[Oldest(commands)] = Head(events)
        /\ status'[Oldest(commands)] = status[Oldest(commands)]
        /\ commands' = commands
        /\ signals' = signals

\* C6: the status of a command changes only along the lifecycle, and
\* accepting a data event stores it and leaves the status unchanged.
C6_Lifecycle == [][C6_Step]_vars

\* C6 witness: a get command that holds a data event and is still SENT.
C6_Witness ==
    \E c \in Commands :
        /\ cls[c] = "GetPropertyCommand"
        /\ status[c] = "SENT"
        /\ data_event[c] # None

\* The status a final event leaves a command in.
FinalStatus(event) == IF event.type = "CommandSucceeded" THEN "SUCCESSFUL" ELSE "ERROR"

\* C7: a get-property command fed a string or number frame and then a final
\* frame ends SUCCESSFUL if that frame is CommandSucceeded and ERROR if not,
\* with data_event equal to the value frame in both cases.
C7_GetPropertyKeepsData ==
    \A i \in 1..(Len(fed) - 1) :
        LET c == fed[i][1]
            data == fed[i][3]
            final == fed[i + 1][3]
        IN  (/\ cls[c] = "GetPropertyCommand"
             /\ fed[i + 1][1] = c
             /\ data.type \in {"StringHeadEvent", "NumberHeadEvent"}
             /\ final.type \notin {"StringHeadEvent", "NumberHeadEvent"})
            => (status[c] = FinalStatus(final) /\ data_event[c] = data)

\* C7 witness: a get command got a number frame, then CommandSucceeded.
C7_Witness ==
    /\ Len(fed) = 2
    /\ cls[fed[1][1]] = "GetPropertyCommand"
    /\ fed[2][1] = fed[1][1]
    /\ fed[1][3].type = "NumberHeadEvent"
    /\ fed[2][3].type = "CommandSucceeded"

\* The calls of event() that passed a final frame, in order.
FinalFeeds == SelectSeq(fed, LAMBDA x : FinalFor(x[1], x[3]))

\* C8: the signals emitted are, in order, one per final frame a command
\* received: successful with status SUCCESSFUL for CommandSucceeded, failed
\* with status ERROR for any other final frame.
C8_OneSignalPerFinal ==
    /\ Len(signals) = Len(FinalFeeds)
    /\ \A k \in 1..Len(signals) :
        signals[k] = <<FinalFeeds[k][1],
                       IF FinalFeeds[k][3].type = "CommandSucceeded"
                       THEN "successful" ELSE "failed",
                       FinalStatus(FinalFeeds[k][3])>>

\* C8 witness: one command has succeeded and another has failed.
C8_Witness ==
    /\ Len(signals) = 2
    /\ signals[1][2] # signals[2][2]

\* C9, one step: a command that leaves the queue was its oldest entry and
\* SENT, the step is poll() giving it a final frame and emitting its
\* signal, and nothing else about the queue changes.
C9_Step ==
    \A c \in Range(commands) :
        c \notin Range(commands') =>
            /\ Feeding
            /\ c = Oldest(commands)
            /\ FinalFor(c, Head(events))
            /\ commands' = pop(commands)
            /\ fed' = Append(fed, <<c, "SENT", Head(events)>>)
            /\ Len(signals') = Len(signals) + 1
            /\ signals'[Len(signals')][1] = c
            /\ signals'[Len(signals')][3] \in {"SUCCESSFUL", "ERROR"}

\* C9: a command leaves the queue only in poll(), as the oldest entry, SENT,
\* and driven to SUCCESSFUL or ERROR by a frame in that step.
C9_RemovedOnlyWhenResolved == [][C9_Step]_vars

\* C9 witness: a completed command is out of the queue while others wait.
C9_Witness ==
    \E c \in Commands :
        /\ completed(status[c])
        /\ c \notin Range(commands)
        /\ commands # <<>>

\* C10, one step: no command is written twice between creation or reset and
\* completion; a SENT command that is given no frame in the step stays SENT
\* and stays the oldest entry of the queue, and nothing is transmitted.
C10_Step ==
    \A c \in Commands :
        /\ sends'[c] <= 1
        /\ (status[c] = "SENT" /\ ~(Feeding /\ c = Oldest(commands))) =>
            /\ status'[c] = "SENT"
            /\ commands' # <<>>
            /\ Oldest(commands') = c
            /\ written' = written

\* C10: there is no retry, and a SENT command without a frame stays SENT and
\* queued while nothing else is transmitted.
C10_NoRetry == [][C10_Step]_vars

\* C10 witness: a later poll() call stands at its transmit step while the
\* command transmitted by an earlier call is still SENT, written once and
\* never given a frame, and more commands wait behind it.
C10_Witness ==
    /\ pc = "transmit"
    /\ Len(commands) >= 2
    /\ status[Oldest(commands)] = "SENT"
    /\ sends[Oldest(commands)] = 1
    /\ Len(written) = 1
    /\ fed = <<>>

\* The number of entries of the device queue that are the sendme command.
SendmeCount == Cardinality({i \in 1..Len(commands) : commands[i] = sendme_command})

\* C11: in every reachable state the sendme command occurs at most once in
\* the device queue, however often get_current_page() is called and whatever
\* the status of the command.
C11_SendmeAtMostOnce == SendmeCount <= 1

\* C11 witness: get_current_page() has queued the sendme command a second
\* time (after the reset that followed its first completion), the command
\* has been transmitted again and is in the queue, once.
C11_Witness ==
    /\ Len(SelectSeq(enq, LAMBDA c : c = sendme_command)) = 2
    /\ SendmeCount = 1
    /\ status[sendme_command] = "SENT"

\* A step in which the sendme command emits its successful signal with a
\* CurrentPageID data event: the page ID that was reported.
SendmeSucceeds ==
    /\ Len(signals') = Len(signals) + 1
    /\ signals'[Len(signals')][1] = sendme_command
    /\ signals'[Len(signals')][2] = "successful"
    /\ data_event[sendme_command] # None

\* C12: when the sendme command completes successfully, the cached current
\* page becomes the page whose ID was reported, and page_changed is emitted
\* (once, with that ID) if and only if the reported ID differs from the page
\* cached before, an unknown page counting as different.
C12_Step ==
    SendmeSucceeds =>
        LET pid == data_event[sendme_command].pid IN
        /\ current_page' = pid
        /\ page_changed' = IF pid # current_page THEN Append(page_changed, pid)
                           ELSE page_changed

C12_SendmeSuccess == [][C12_Step]_vars

\* The same for a reported ID under which a page is hooked.
C12_HookedStep ==
    SendmeSucceeds /\ data_event[sendme_command].pid \in PidKeys(pages_by_id)
        => C12_Step

C12_HookedPageSuccess == [][C12_HookedStep]_vars

\* The commands enqueued so far, each as <<class, sender>>, in the order
\* they were enqueued.
Issued == [i \in 1..Len(enq) |-> <<cls[enq[i]], sender[enq[i]]>>]

\* The commands of init() for pages 0 and 1 in ascending order of page ID:
\* the mode command, page 0 and the read of its text widget, page 1 and the
\* read of its text widget, page 0.
AscendingInit ==
    << <<"Command", <<>>>>,
       <<"PageCommand", <<"page0">>>>, <<"GetPropertyCommand", <<"page0", "t0">>>>,
       <<"PageCommand", <<"page1">>>>, <<"GetPropertyCommand", <<"page1", "t0">>>>,
       <<"PageCommand", <<"page0">>>> >>

\* C13: init() selects the hooked pages in ascending order of page ID,
\* whatever the order they were hooked in: with pages 0 and 1 the commands
\* it issues are, in order, the mode command, page 0 and its one-time
\* refresh, page 1 and its one-time refresh, page 0; all of them once init()
\* has returned.
C13_AscendingOrder ==
    /\ IsPrefix(Issued, AscendingInit)
    /\ initialized => Issued = AscendingInit

\* The commands enqueued by the step.
NewlyEnqueued == {enq'[i] : i \in (Len(enq) + 1)..Len(enq')}

\* The command enqueued last is the PageCommand of `page` and it has left
\* the queue.
SelectLeftQueue(page) ==
    /\ enq # <<>>
    /\ cls[enq[Len(enq)]] = "PageCommand"
    /\ sender[enq[Len(enq)]] = <<page>>
    /\ enq[Len(enq)] \notin Range(commands)

\* C14: during init() each phase is drained before the next starts: a
\* page-select command is enqueued only while the queue is empty, the
\* one-time refresh commands of a page only after the select command of that
\* page has left the queue, and the initialized flag becomes true only after
\* the last select command, the one of page 0 that follows the selection of
\* every page, has left the queue.
C14_Step ==
    /\ \A c \in NewlyEnqueued :
        /\ cls'[c] = "PageCommand" => commands = <<>>
        /\ cls'[c] = "GetPropertyCommand" => SelectLeftQueue(sender'[c][1])
    /\ (initialized' /\ ~initialized) =>
        /\ SelectLeftQueue("page0")
        /\ Len(SelectSeq(enq, LAMBDA c : cls[c] = "PageCommand")) = Len(pages_by_id) + 1
        /\ commands = <<>>

C14_PhasesDrained == [][C14_Step]_vars

\* init() has returned after every one of its commands was answered with
\* success: both pages were selected, each text widget was read, and page 0
\* was selected again.
C14_Witness ==
    /\ initialized
    /\ commands = <<>>
    /\ Len(SelectSeq(enq, LAMBDA c : cls[c] = "PageCommand")) = 3
    /\ Len(SelectSeq(enq, LAMBDA c : cls[c] = "GetPropertyCommand")) = 2
    /\ \A c \in Range(enq) : status[c] = "SUCCESSFUL"

C16_Step ==
    (refreshed' # refreshed /\ refreshed' # {}) =>
        /\ pc = "transmit"
        /\ initialized
        /\ commands' = <<>>

C16_RefreshGated == [][C16_Step]_vars

\* After init() a poll() with an empty queue has called the refresh hooks of
\* the device, of page 0 and of its widgets.
C16_Witness ==
    /\ initialized
    /\ commands = <<>>
    /\ pc = "idle"
    /\ {<<"page0">>, <<"page0", "t0">>, <<"page0", "t1">>} \subseteq refreshed

\* poll() is about to dispatch a touch event.
TouchStep ==
    /\ pc = "dispatch"
    /\ events # <<>>
    /\ Head(events).type = "TouchEvent"

\* The (page ID, component ID) of the touch event is in the registry.
TouchRegistered ==
    /\ Head(events).pid \in PidKeys(pages_by_id)
    /\ Head(events).cid \in
           CidKeys(D_WIDGETS_BY_CID[ByPid(pages_by_id, Head(events).pid).name])

\* C17: for a touch frame whose (page ID, component ID) is not in the
\* registry poll() logs and discards the frame and does not raise; for a
\* registered widget it emits the pressed signal of that widget for a press
\* frame and its released signal for a release frame, and notifies no other
\* widget.
C17_Step ==
    TouchStep =>
        IF ~TouchRegistered
        THEN raised' = "none" /\ touched' = touched
        ELSE LET event == Head(events)
                 page == ByPid(pages_by_id, event.pid).name
                 widget == ByCid(D_WIDGETS_BY_CID[page], event.cid)
             IN touched' = Append(touched,
                                  <<event.pid, widget.name,
                                    IF event.press_event = 1 THEN "pressed"
                                    ELSE "released">>)

C17_TouchRouting == [][C17_Step]_vars

\* The same for the widgets whose class has the pressed and released
\* signals.
C17_TouchableStep ==
    (TouchStep /\ TouchRegistered
     /\ ~ITouchable(ByCid(D_WIDGETS_BY_CID[ByPid(pages_by_id, Head(events).pid).name],
                          Head(events).cid).type))
    \/ C17_Step

C17_TouchableRouting == [][C17_TouchableStep]_vars

\* The uniqueness errors of hook_page and hook_widget.
UniquenessErrors == {"NexComponentNameException", "NexComponentIdException"}

\* What the claim says of a hook call with `name` and `id` on the name table
\* by_name and the ID table by_id (of which the keys are name_keys and
\* id_keys), which the call leaves as by_name_after and by_id_after.
HookOutcome(name, id, name_keys, id_keys, by_name, by_id, by_name_after, by_id_after) ==
    IF name \in name_keys \/ id \in id_keys
    THEN /\ raised' \in UniquenessErrors
         /\ raised' = "NexComponentNameException" => name \in name_keys
         /\ raised' = "NexComponentIdException" => id \in id_keys
         /\ by_name_after = by_name
         /\ by_id_after = by_id
    ELSE /\ raised' = "none"
         /\ by_name_after # by_name

\* C18: hooking a page whose name or numeric ID is already registered, or a
\* widget whose name or numeric ID is already registered on the same page,
\* raises the name-uniqueness or the ID-uniqueness error and leaves the name
\* table and the ID table as they were; a widget name or ID registered on
\* another page only is accepted.
C18_Step ==
    /\ call'.op = "hook_page" =>
        /\ HookOutcome(call'.name, call'.id, NameKeys(pages_by_name),
                       PidKeys(pages_by_id), pages_by_name, pages_by_id,
                       pages_by_name', pages_by_id')
        /\ UNCHANGED <<D_WIDGETS_BY_NAME, D_WIDGETS_BY_CID>>
    /\ call'.op = "hook_widget" =>
        /\ HookOutcome(call'.name, call'.id,
                       NameKeys(D_WIDGETS_BY_NAME[call'.page]),
                       CidKeys(D_WIDGETS_BY_CID[call'.page]),
                       D_WIDGETS_BY_NAME[call'.page], D_WIDGETS_BY_CID[call'.page],
                       D_WIDGETS_BY_NAME'[call'.page], D_WIDGETS_BY_CID'[call'.page])
        /\ \A p \in PageNames \ {call'.page} :
            /\ D_WIDGETS_BY_NAME'[p] = D_WIDGETS_BY_NAME[p]
            /\ D_WIDGETS_BY_CID'[p] = D_WIDGETS_BY_CID[p]
        /\ UNCHANGED <<pages_by_name, pages_by_id>>

C18_HookUniqueness == [][C18_Step]_vars

\* Widget t0 with ID 1 is hooked on both pages, and hooking another widget
\* with ID 1 on page1 has raised the ID-uniqueness error.
C18_Witness ==
    /\ \A p \in PageNames :
        /\ "t0" \in NameKeys(D_WIDGETS_BY_NAME[p])
        /\ 1 \in CidKeys(D_WIDGETS_BY_CID[p])
    /\ call = [op |-> "hook_widget", page |-> "page1", type |-> "text",
               name |-> "t1", id |-> 1]
    /\ raised = "NexComponentIdException"
    /\ "t1" \notin NameKeys(D_WIDGETS_BY_NAME["page1"])

\* C19: the command queue is mutated only in the context of the poll loop: a
\* command enqueued by application code from another thread (a widget's
\* send_command, or get_current_page) is handed off and is never inserted
\* into the queue while a poll() call is in progress.
C19_Step == Len(commands') > Len(commands) => pc = "idle"

C19_NoInsertDuringPoll == [][C19_Step]_vars

\* C20: a stop request to the poller is never missed: once stop() has
\* returned, the run loop starts at most one further poll() call and then
\* exits, under any interleaving of stop() with the loop.
C20_StopNotMissed ==
    /\ [](polls_after_stop <= 1)
    /\ (stop_pc = "returned") ~> (run_pc \in {"exited", "raised"})

\* After stop() has returned the run loop starts at most one further poll().
C20_AtMostOnePoll == polls_after_stop <= 1

\* After stop() has returned the run loop exits unless the poll() call it is
\* in never returns.
C20_ExitsIfPollReturns ==
    (stop_pc = "returned") ~> (run_pc \in {"exited", "raised"} \/ [](pc = "scan"))

\* The byte string given to the parser is terminated and starts with 0x00.
TerminatedInvalidCmd == has_end(args) /\ args[1] = INVALID_CMD

\* C21: parsing the 6-byte frame 00 00 00 FF FF FF returns the Startup
\* event, and parsing any other terminated frame whose first byte is 0x00
\* raises the protocol error that carries the invalid-command code.
C21_StartupOrInvalidCmd ==
    (result # NoResult /\ TerminatedInvalidCmd) =>
        IF args = <<0, 0, 0, 255, 255, 255>>
        THEN result = [type |-> "EventStartup"]
        ELSE result = NexMessageException(INVALID_CMD)

\* The startup frame has been parsed.
C21_Witness ==
    /\ args = <<0, 0, 0, 255, 255, 255>>
    /\ result = [type |-> "EventStartup"]

\* The frame length of each fixed-length variant, by leading byte: Touch 7,
\* CurrentPage 5, Position and SleepPosition 9, NumberValue 8,
\* CommandSucceeded and EventLaunched 4.
VariantLength ==
    [b \in { EVENT_TOUCH_HEAD, CURRENT_PAGE_ID_HEAD, EVENT_POSITION_HEAD,
             EVENT_SLEEP_POSITION_HEAD, NUMBER_HEAD, CMD_FINISHED,
             EVENT_LAUNCHED } |->
        CASE b = EVENT_TOUCH_HEAD -> 7
          [] b = CURRENT_PAGE_ID_HEAD -> 5
          [] b \in {EVENT_POSITION_HEAD, EVENT_SLEEP_POSITION_HEAD} -> 9
          [] b = NUMBER_HEAD -> 8
          [] OTHER -> 4]

\* The typed errors of the parser (exceptions.py).
TypedErrors ==
    { "NexMessageException", "NexMessageEndException",
      "NexMessageLengthException", "NexMessageFirstByteException" }

\* C22: a terminated frame with the leading byte of a fixed-length variant
\* and another length raises the typed length error; with the right length
\* the parser returns an event or raises a typed error, never a generic one.
C22_TypedLengthErrors ==
    (/\ result # NoResult
     /\ has_end(args)
     /\ args[1] \in DOMAIN VariantLength) =>
        IF Len(args) # VariantLength[args[1]]
        THEN result = Raise("NexMessageLengthException")
        ELSE result.type = "raise" => result.exc \in TypedErrors

\* The first half of C22 alone: another length raises the typed length error.
C22_WrongLength ==
    (/\ result # NoResult
     /\ has_end(args)
     /\ args[1] \in DOMAIN VariantLength
     /\ Len(args) # VariantLength[args[1]]) =>
        result = Raise("NexMessageLengthException")

\* The command for object t0, property txt and the string value Hi.
SetTextHi ==
    args = << <<116, 48>>, <<116, 120, 116>>, [kind |-> "str", chars |-> <<72, 105>>] >>

\* C23: the set-property command for object t0, property txt and string
\* value Hi has the wire bytes t0.txt="Hi", double quotes included, followed
\* by FF FF FF; in general the wire bytes are object.property=value followed
\* by the three terminator bytes.
C23_SetPropertyWireBytes ==
    result # NoResult =>
        /\ SetTextHi =>
               result = <<116, 48, 46, 116, 120, 116, 61, 34, 72, 105, 34, 255, 255, 255>>
        /\ (args[3].kind = "str" /\ \A i \in 1..Len(args[3].chars) : args[3].chars[i] <= 255) =>
               \E quote \in {<<>>, <<34>>} :
                   result = args[1] \o <<46>> \o args[2] \o <<61>> \o quote
                                \o args[3].chars \o quote \o S_END_OF_CMD

\* The general half of C23 with the value as it was passed: the wire bytes
\* are object.property=value followed by the terminator.
C23_Unquoted ==
    (/\ result # NoResult
     /\ args[3].kind = "str"
     /\ \A i \in 1..Len(args[3].chars) : args[3].chars[i] <= 255) =>
        result = args[1] \o <<46>> \o args[2] \o <<61>> \o args[3].chars \o S_END_OF_CMD

\* C26: a parsed NumberValue frame carries the unsigned value u of its four
\* payload bytes (least significant first), 0 <= u < 2^32, and the signed
\* value s, with s = u when u < 2^31 and s = u - 2^32 otherwise.  u is
\* hi * 2^16 + lo, so u < 2^31 is hi < 2^15 and u - 2^32 is
\* (hi - 2^16) * 2^16 + lo.
C26_UnsignedAndSigned ==
    (/\ result # NoResult
     /\ has_end(args)
     /\ Len(args) = 8
     /\ args[1] = NUMBER_HEAD) =>
        /\ result.type = "NumberHeadEvent"
        /\ result.value.hi = args[5] * 256 + args[4]
        /\ result.value.lo = args[3] * 256 + args[2]
        /\ result.value.hi \in 0..65535
        /\ result.value.lo \in 0..65535
        /\ result.signed_value =
               IF result.value.hi < 32768
               THEN result.value.hi * 65536 + result.value.lo
               ELSE (result.value.hi - 65536) * 65536 + result.value.lo

\* The frame of 0xFFFFFFFF has been parsed: u = 2^32 - 1 and s = -1.
C26_Witness ==
    /\ args = <<NUMBER_HEAD, 255, 255, 255, 255, 255, 255, 255>>
    /\ result # NoResult
    /\ result.type = "NumberHeadEvent"
    /\ result.value = [hi |-> 65535, lo |-> 65535]
    /\ result.signed_value = -1

\* C24: read_next() returns the frames the device sent, one complete frame
\* per call, in arrival order and each exactly once (the frames returned
\* so far are the first frames sent), and an empty result only when no
\* complete frame is buffered; for every byte stream, frames with FF FF FF
\* in the payload and several frames in one chunk included.
C24_FramesInOrder ==
    /\ IsPrefix(returned, sent)
    /\ \A i \in 1..Len(returned) : returned[i] # <<>>

\* No byte of the payload of a frame sent so far is 0xFF.
PlainPayloads ==
    \A i \in 1..Len(sent) :
        \A j \in 1..(Len(sent[i]) - TERMINATOR_SIZE) : sent[i][j] # END_BYTE

\* C24 for the streams without 0xFF in a payload.
C24_PlainFramesInOrder == PlainPayloads => C24_FramesInOrder

\* Two frames that reached the port in one chunk have been returned by two
\* calls.
C24_PlainWitness ==
    /\ PlainPayloads
    /\ Len(returned) = 2
    /\ returned[1] # returned[2]
    /\ events_queue = <<>>
    /\ line = <<>>
    /\ in_waiting = <<>>

\* A step in which a completion handler of the sendme command runs to its
\* reset(): the command emits failed, or it emits successful with a data
\* event that names a hooked page.
SendmeResets ==
    /\ Len(signals') = Len(signals) + 1
    /\ signals'[Len(signals')][1] = sendme_command
    /\ \/ signals'[Len(signals')][2] = "failed"
       \/ /\ data_event[sendme_command] # None
          /\ data_event[sendme_command].pid \in PidKeys(pages_by_id)

\* The fields of the sendme command after the step.
SendmeAfter ==
    [status |-> status'[sendme_command], data_event |-> data_event'[sendme_command]]

C25_Step ==
    SendmeResets =>
        /\ signals'[Len(signals')][3] \in {"SUCCESSFUL", "ERROR"}
        /\ SendmeAfter = [status |-> "CREATED", data_event |-> None]
        /\ CommandReset(SendmeAfter) = SendmeAfter
        /\ sendme_command \notin Range(commands')
        /\ sends'[sendme_command] = 0

\* C25: reset() of a command that is Successful or Error leaves it with
\* status Created and no data event, the fields of a fresh command; a second
\* reset changes nothing; the command is out of the queue with no
\* transmission on its account, so it is enqueued and driven again as a
\* fresh command is.
C25_ResetIsFresh == [][C25_Step]_vars

\* The sendme command has completed, was reset, enqueued and transmitted
\* again, and has completed and been reset a second time.
C25_Witness ==
    /\ \E i, j \in 1..Len(signals) :
           /\ i < j
           /\ signals[i][1] = sendme_command
           /\ signals[j][1] = sendme_command
    /\ Cardinality({i \in 1..Len(written) : written[i] = sendme_command}) = 2
    /\ status[sendme_command] = "CREATED"
    /\ data_event[sendme_command] = None

\* poll() is processing a touch event: it is the event of the for-loop.
ProcessingTouch ==
    /\ pc \in {"dispatch", "scan"}
    /\ events # <<>>
    /\ Head(events).type = "TouchEvent"

C27_Step ==
    ProcessingTouch => UNCHANGED <<commands, status, data_event, fed, signals>>

\* C27: while poll() processes a touch event the command queue, the status
\* and the data event of every command stay as they are and no command is
\* given the event, whatever the status of the queued commands.
C27_TouchLeavesCommands == [][C27_Step]_vars

\* Two touch frames were drained by a poll() that found the oldest command
\* Sent: the first has been routed to its widget, the second is next, and
\* the command is still the oldest, Sent and without an event.
C27_Witness ==
    /\ ProcessingTouch
    /\ nframes = 2
    /\ Len(events) = 1
    /\ Len(touched) = 1
    /\ commands # <<>>
    /\ status[Oldest(commands)] = "SENT"
    /\ fed = <<>>

\* Entry i of the log of event() calls is a data event that its command
\* accepted.
AcceptedData(log, i) == log[i][3].type \in DATA_EVENT_CLASSES(cls[log[i][1]])

C28_Step ==
    /\ (pc = "idle" /\ pc' = "dispatch") =>
           /\ Len(events') = Len(rx)
           /\ \A i \in 1..Len(rx) : events'[i] = MsgEventParse(rx[i])
    /\ (pc \in {"dispatch", "scan"} /\ events' # events) =>
           events' = Tail(events) \/ (raised' # "none" /\ events' = <<>>)
    /\ fed' # fed =>
           /\ Len(fed') = Len(fed) + 1
           /\ SubSeq(fed', 1, Len(fed)) = fed
           /\ fed'[Len(fed')][1] = Oldest(commands)
           /\ fed'[Len(fed')][3] = Head(events)
           /\ events' = Tail(events)
           /\ AcceptedData(fed', Len(fed')) =>
                  /\ commands' = commands
                  /\ status'[Oldest(commands')] = "SENT"
                  /\ data_event'[Oldest(commands')] = Head(events)
    /\ \A i \in 1..(Len(fed') - 1) :
           AcceptedData(fed', i) =>
               /\ fed'[i + 1][1] = fed'[i][1]
               /\ fed'[i + 1][2] = "SENT"

\* C28: poll() holds the drained frames in arrival order and takes them
\* from the front one at a time; a frame given to a command is given to the
\* oldest one and is gone from the list at once, so no second command gets
\* it; a frame the command accepts as its data event leaves the command the
\* oldest and Sent, and the next frame given to any command goes to it.
C28_OrderedSingleDispatch == [][C28_Step]_vars

\* In one poll() the oldest command has accepted a data frame and the frame
\* that follows it in the same drain is next: the command is still the
\* oldest and Sent.
C28_Witness ==
    /\ pc = "dispatch"
    /\ Len(events) = 1
    /\ Head(events).type = "CommandSucceeded"
    /\ nframes = 2
    /\ Len(fed) = 1
    /\ AcceptedData(fed, 1)
    /\ commands # <<>>
    /\ Oldest(commands) = fed[1][1]
    /\ status[fed[1][1]] = "SENT"
    /\ data_event[fed[1][1]] = fed[1][3]

\* poll() is processing the startup event or the ready event.
ProcessingStartup ==
    /\ pc \in {"dispatch", "scan"}
    /\ events # <<>>
    /\ Head(events).type \in {"EventStartup", "EventLaunched"}

C29_Step ==
    ProcessingStartup => UNCHANGED <<commands, status, data_event, signals>>

\* C29: while poll() processes the startup frame or the ready frame the
\* queue keeps its commands and their order and no command changes status,
\* whether the queue is empty or its oldest command is Created or Sent.
C29_StartupLeavesCommands == [][C29_Step]_vars

\* C29 for an empty queue: both frames are consumed and nothing changes.
C29_EmptyQueueStep ==
    (ProcessingStartup /\ commands = <<>>) =>
        /\ UNCHANGED <<commands, status, data_event, signals>>
        /\ pc = "scan" => events' = Tail(events)

C29_EmptyQueue == [][C29_EmptyQueueStep]_vars

\* How often command c occurs in the first field of the entries of a log
\* of tuples, or in a log of commands.
Completions(c) == Cardinality({i \in 1..Len(signals) : signals[i][1] = c})

Enqueues(c) == Cardinality({i \in 1..Len(enq) : enq[i] = c})

\* Command c has left the queue and has completed, Successful or Error, as
\* often as it was enqueued.
Done(c) ==
    /\ c \notin Range(commands)
    /\ Completions(c) = Enqueues(c)
    /\ \A i \in 1..Len(signals) :
           signals[i][1] = c => signals[i][3] \in {"SUCCESSFUL", "ERROR"}

\* C30: with a device that answers every transmitted command with a final
\* frame and a poll() that is called again and again, every enqueued
\* command eventually completes, Successful or Error, and leaves the queue.
C30_EveryCommandCompletes ==
    \A c \in Commands : (c \in Range(commands)) ~> Done(c)

\* The device has sent no fault code.
NoFaultSent == \A i \in 1..Len(sent) : sent[i][1] # INVALID_VARIABLE

\* C30 for a device whose final frames are all command succeeded.
C30_CompletesIfNoFault == ([]NoFaultSent) => C30_EveryCommandCompletes

\* A step in which the sendme command completes: it emits successful or
\* failed.
SendmeCompletes ==
    /\ Len(signals') = Len(signals) + 1
    /\ signals'[Len(signals')][1] = sendme_command

C31_Step ==
    SendmeCompletes =>
        /\ status'[sendme_command] = "CREATED"
        /\ data_event'[sendme_command] = None
        /\ sendme_command \notin Range(commands')

\* C31: after any completion of the sendme command, with or without a page
\* frame before command succeeded, with a hooked or an unhooked page ID, or
\* with a failure, the command is Created, holds no data event and is out
\* of the queue, so that get_current_page() enqueues it again.
C31_SendmeReadyAgain == [][C31_Step]_vars

\* C31 for the completions whose handler reaches reset(): a failure, or a
\* success with the page frame of a hooked page.
C31_ReadyAfterReset == [][SendmeResets => C31_Step]_vars

\* A page-select command that the page sent is in the device queue.
PageCommandPending(page) ==
    \E i \in 1..Len(commands) :
        /\ cls[commands[i]] = "PageCommand"
        /\ sender[commands[i]] = <<page>>

\* C32: the page-switch-in-progress flag of a page is true only while a
\* page-select command of that page is in the device queue; once the
\* command has completed, Successful or Error, the flag is false (and the
\* refresh hooks of the page reach its widgets again).
C32_FlagOnlyWhilePending ==
    \A page \in DOMAIN page_switch_in_progress :
        page_switch_in_progress[page] => PageCommandPending(page)

C32_SuccessStep ==
    \A page \in DOMAIN page_switch_in_progress :
        (/\ Len(signals') = Len(signals) + 1
         /\ signals'[Len(signals')][2] = "successful"
         /\ cls[signals'[Len(signals')][1]] = "PageCommand"
         /\ sender[signals'[Len(signals')][1]] = <<page>>) =>
            ~page_switch_in_progress'[page]

\* C32 for a page-select command that succeeds: the flag is false after it.
C32_ClearedOnSuccess == [][C32_SuccessStep]_vars

\* The number of frames a step of poll() reads from the transport.
FramesRead == Len(rx) - Len(rx')

C33_Step ==
    (pc = "idle" /\ FramesRead > 0) =>
        LET parsed == IF raised' = "none" THEN FramesRead ELSE FramesRead - 1
        IN  /\ Len(events') = parsed
            /\ \A i \in 1..parsed : events'[i] = MsgEventParse(rx[i])

\* C33: every frame that poll() reads from the transport is dispatched: if
\* the parser fails on a frame, the frames read before it in the same call
\* are still in the list of events that poll() goes on to dispatch.
C33_ReadFramesDispatched == [][C33_Step]_vars

\* C33 for a drain in which the parser does not fail.
C33_DispatchedIfParsed == [][raised' = "none" => C33_Step]_vars

\* The pages and widgets that send commands.
Senders ==
    {<<p>> : p \in PageNames}
    \cup UNION {{<<p, D_WIDGETS_BY_NAME[p][i].name>> :
                    i \in 1..Len(D_WIDGETS_BY_NAME[p])} : p \in PageNames}

\* The commands of w that are in the device queue, in the order of the queue.
QueuedOf(w) == SelectSeq(commands, LAMBDA c : sender[c] = w)

\* A command sent through a page or widget emits a completion signal.
WidgetCommandCompletes ==
    /\ Len(signals') = Len(signals) + 1
    /\ sender[signals'[Len(signals')][1]] # <<>>

\* `assert existing == command` of the completion slots: the command that
\* completes is the one at the right end of its sender's deque.
AssertionHolds ==
    LET command == signals'[Len(signals')][1]
        w == sender[command]
    IN  /\ WidgetDeque(w) # <<>>
        /\ Oldest(WidgetDeque(w)) = command

DequesMatchQueue == \A w \in Senders : WidgetDeque(w) = QueuedOf(w)

\* C34: when a command sent through a widget completes it is the oldest
\* entry of that widget's deque (the assertion of the completion slots
\* holds), and the deque of every widget always equals, in the same order,
\* the commands of that widget that are still in the device queue.
C34_Step ==
    /\ WidgetCommandCompletes => AssertionHolds
    /\ DequesMatchQueue'
C34_WidgetDequeMatchesQueue == [][C34_Step]_vars

\* The assertion alone.
C34_AssertionStep == WidgetCommandCompletes => AssertionHolds
C34_AssertionHolds == [][C34_AssertionStep]_vars

\* A completion of a widget command while its sender has another pending.
C34_Completed ==
    \E i \in 1..Len(signals) :
        /\ sender[signals[i][1]] # <<>>
        /\ WidgetDeque(sender[signals[i][1]]) # <<>>

\* Outside the scan loop of poll() the deques and the queue agree.
C34_MatchOutsideScan == pc # "scan" => DequesMatchQueue

====
